---- MODULE Spec2Model ----
(***************************************************************************)
(* A model of the hoard cache (src/hoard.go, src/expiration.go and the     *)
(* package-level shortcuts of src/shared_hoard.go).                        *)
(*                                                                         *)
(* Two engines exist: "shared", the process-wide instance the package      *)
(* level functions forward to, and "own", an instance made with Make.      *)
(* Callers are threads; every handler is cut into the steps its locks make *)
(* atomic (one step per critical section), so that the interleavings of    *)
(* the Go program are the behaviours of the model.                         *)
(*                                                                         *)
(* Time is a discrete clock starting at 1; 0 stands for Go's zero          *)
(* time.Time and for a duration that is not set.                           *)
(***************************************************************************)
EXTENDS Integers, Sequences, FiniteSets, TLC

VARIABLES
    now,               \* time.Now()
    condition,         \* what the caller's ExpirationCondition returns now
    cache,             \* h.cache, per engine: a map key -> container
    expirationCache,   \* h.expirationCache, per engine: key -> expirationContainer
    absolute,          \* Expiration.absolute, per Expiration object
    defaultExpiration, \* h.defaultExpiration, per engine
    tickerRunning,     \* h.tickerRunning, per engine
    ticker,            \* h.ticker, per engine: the id of the latest ticker (0 = nil)
    tickerOn,          \* per engine: the tickers that are not stopped
    sweeper,           \* per engine: the flush goroutines, by the ticker each ranges over
    keyDeadbolts,      \* h.keyDeadbolts, per engine: key -> mutex id
    locked,            \* the key mutexes that are locked
    th,                \* per thread: position and locals of the call in progress
    calls,             \* number of calls started so far
    invoked,           \* per engine and key: how often a dataGetter was invoked
    cfg                \* the scenario: which threads, operations, engines take part

vars == <<now, condition, cache, expirationCache, absolute, defaultExpiration,
          tickerRunning, ticker, tickerOn, sweeper, keyDeadbolts, locked, th,
          calls, invoked, cfg>>

shared == <<cache, expirationCache, absolute, tickerRunning, ticker, tickerOn,
            sweeper, keyDeadbolts, locked>>

(***************************************************************************)
(* Bounds                                                                  *)
(***************************************************************************)
MaxTime == 3
MaxCalls == 3
NumThreads == 3
NumKeys == 2

Threads == 1..NumThreads

\* a dataGetter may itself call Get: the nested call of thread t runs in the
\* frame Frame(t), which is a thread record of its own
Frame(t) == NumThreads + t
Frames == {Frame(t) : t \in Threads}
Callers == Threads \cup Frames
Keys == 1..NumKeys
Values == 1..MaxCalls
Engines == {"shared", "own"}
Times == 1..MaxTime
Tickers == 1..MaxCalls    \* every ticker is made by a call

(***************************************************************************)
(* Expiration objects.  A *Expiration is a pointer: "nil" is               *)
(* ExpiresDefault, "never" is the one object ExpiresNever points to, the   *)
(* others are objects built with Expires() and the builder methods.        *)
(***************************************************************************)
ExpiresDefault == "nil"
ExpiresNever == "never"

Expiration ==
    [ never  |-> [idle |-> 0, duration |-> 0, date |-> 0, condition |-> FALSE],
      pempty |-> [idle |-> 0, duration |-> 0, date |-> 0, condition |-> FALSE],
      pdur   |-> [idle |-> 0, duration |-> 1, date |-> 0, condition |-> FALSE],
      pidle  |-> [idle |-> 1, duration |-> 0, date |-> 0, condition |-> FALSE],
      pdate  |-> [idle |-> 0, duration |-> 0, date |-> 2, condition |-> FALSE],
      pcond  |-> [idle |-> 0, duration |-> 0, date |-> 0, condition |-> TRUE] ]

ExpirationObjects == DOMAIN Expiration
Pointers == ExpirationObjects \cup {ExpiresDefault}

\* Expiration.updateAbsoluteTime: the earliest of date, lastAccess+idle, created+duration
updateAbsoluteTime(e, lastAccess, created) ==
    LET abs0 == Expiration[e].date
        abs1 == IF Expiration[e].idle # 0
                   /\ (lastAccess + Expiration[e].idle < abs0 \/ abs0 = 0)
                THEN lastAccess + Expiration[e].idle ELSE abs0
        abs2 == IF Expiration[e].duration # 0
                   /\ (created + Expiration[e].duration < abs1 \/ abs1 = 0)
                THEN created + Expiration[e].duration ELSE abs1
    IN  abs2

\* Expiration.isExpiredAbsolute, with e.absolute = abs and e.condition() = c
isExpiredAbsolute(e, abs, currentTime, c) ==
    \/ abs # 0 /\ currentTime > abs
    \/ Expiration[e].condition /\ c

\* (faulty variant) the date of the Expiration is not looked at
IsExpiredWithoutDate(x, lastAccess, created, currentTime, c) ==
    \/ x.duration # 0 /\ currentTime - created > x.duration
    \/ x.idle # 0 /\ currentTime - lastAccess > x.idle
    \/ x.condition /\ c

\* the body of Expiration.IsExpired on the fields x of the Expiration, with
\* time.Now() = currentTime and e.condition() = c
IsExpiredFields(x, lastAccess, created, currentTime, c) ==
    \/ x.duration # 0 /\ currentTime - created > x.duration
    \/ x.idle # 0 /\ currentTime - lastAccess > x.idle
    \/ x.date # 0 /\ currentTime > x.date
    \/ x.condition /\ c

\* Expiration.IsExpired, with time.Now() = currentTime and e.condition() = c
IsExpired(e, lastAccess, created, currentTime, c) ==
    IsExpiredFields(Expiration[e], lastAccess, created, currentTime, c)

(***************************************************************************)
(* Maps                                                                    *)
(***************************************************************************)
Put(m, k, v) == [x \in DOMAIN m \cup {k} |-> IF x = k THEN v ELSE m[x]]
Delete(m, ks) == [x \in DOMAIN m \ ks |-> m[x]]
EmptyMap == [x \in {} |-> 0]

\* container and cloneExpirationContainer
container(data, accessed, created, expiration) ==
    [data |-> data, accessed |-> accessed, created |-> created, expiration |-> expiration]
cloneExpirationContainer(c) ==
    [accessed |-> c.accessed, created |-> c.created, expiration |-> c.expiration]
NoObject == container(0, 0, 0, ExpiresDefault)

\* the result of a call: data (0 = nil), err, and the bool of SetExpires / Has
Result(data, err, ok) == [data |-> data, err |-> err, ok |-> ok]
NoResult == Result(0, FALSE, FALSE)

\* a flush goroutine: where it is (waiting for a tick, about to delete, about
\* to stop), the keys its scan collected, and (for the record only) the
\* expirationContainer it judged each of them by
Waiting == [pc |-> "wait", expirations |-> {}, judged |-> EmptyMap]

(***************************************************************************)
(* Threads                                                                 *)
(***************************************************************************)
\* what a thread remembers of a call it made: its kind, engine and key,
\* whether its dataGetter returned an error and whether it stored a value
Made(c) == [kind |-> c.kind, e |-> c.e, k |-> c.k, err |-> c.err, stored |-> c.stored]

\* the last n of the calls made, the latest last
Remember(calls_, c, n) ==
    LET all == Append(calls_, Made(c))
    IN  IF Len(all) <= n THEN all ELSE SubSeq(all, Len(all) - n + 1, Len(all))

Idle ==
    [pc |-> "idle", kind |-> "none", e |-> "shared", k |-> 1, getter |-> FALSE,
     val |-> 0, given |-> "omitted", pol |-> ExpiresDefault, err |-> FALSE,
     object |-> NoObject,
     ok |-> FALSE, mu |-> 0, rmE |-> "shared", cont |-> "idle",
     first |-> "none", second |-> "none", called |-> 0, stored |-> FALSE,
     ret |-> NoResult, prev |-> <<>>]

Gets == {"Get", "GetWithError"}

\* where a call of each kind starts
Entry(kind) ==
    CASE kind \in Gets -> "check1"
      [] kind = "Set" -> "setCache"
      [] kind = "Remove" -> "rmCache"
      [] kind = "SetExpires" -> "sxGet"
      [] kind = "Has" -> "has"

\* where control goes when h.Set returns
AfterSet(kind) == IF kind \in Gets THEN "unlock" ELSE "done"

\* what IsExpired is called with: the fields of the Expiration, the times of
\* the container, and what the condition function returns
Input(x, lastAccess, created, returns) ==
    [x |-> x, lastAccess |-> lastAccess, created |-> created, returns |-> returns]
NoInput == Input(Expiration[ExpiresNever], 0, 0, FALSE)

\* A scenario: the threads that make calls, the kinds of call they make, the
\* engines they call, the Expiration pointers they pass or return, whether
\* Get is given a dataGetter, and the default Expiration "own" was made with
\* (history: how many of its previous calls a thread remembers; count: the
\* dataGetter invocations are counted; budget: how many calls are made in
\* all; keys: the keys the calls are made on, one key unless said otherwise;
\* nest: whether the dataGetters call Get on another key; hang: the keys whose
\* dataGetters never return; apart: whether each thread keeps to a key of its
\* own; input: the Expiration and the times IsExpired is called with)
Scenario(threads, kinds, engines, policies, getters, default, history, count) ==
    [threads |-> threads, kinds |-> kinds, engines |-> engines,
     policies |-> policies, getters |-> getters, default |-> default,
     history |-> history, count |-> count, budget |-> MaxCalls, keys |-> {1},
     nest |-> FALSE, hang |-> {}, apart |-> FALSE, input |-> NoInput]

\* Make(defaultExpiration) for "own", MakeHoard(ExpiresNever) for "shared"
InitWith(c) ==
    /\ now = 1
    /\ condition = FALSE
    /\ cache = [e \in Engines |-> EmptyMap]
    /\ expirationCache = [e \in Engines |-> EmptyMap]
    /\ absolute = [p \in ExpirationObjects |-> 0]
    /\ defaultExpiration = [shared |-> ExpiresNever, own |-> c.default]
    /\ tickerRunning = [e \in Engines |-> FALSE]
    /\ ticker = [e \in Engines |-> 0]
    /\ tickerOn = [e \in Engines |-> {}]
    /\ sweeper = [e \in Engines |-> EmptyMap]
    /\ keyDeadbolts = [e \in Engines |-> EmptyMap]
    /\ locked = {}
    /\ th = [t \in Callers |-> Idle]
    /\ calls = 0
    /\ invoked = [e \in Engines |-> [k \in Keys |-> 0]]
    /\ cfg = c

(***************************************************************************)
(* Helpers shared by the handlers                                          *)
(***************************************************************************)
Step(t, f) == th' = [th EXCEPT ![t] = f]
At(t, pc) == th[t].pc = pc

\* cacheGet(key): the container and whether it is there
cacheGet(e, k) == IF k \in DOMAIN cache[e] THEN cache[e][k] ELSE NoObject
cacheHas(e, k) == k \in DOMAIN cache[e]

\* cacheSet(key, object)
cacheSet(e, k, object) == cache' = [cache EXCEPT ![e] = Put(@, k, object)]

\* expirationCacheSet(key, object): refresh the absolute time of the (shared)
\* Expiration object, then store the clone in the expiration cache
expirationCacheSet(e, k, object) ==
    /\ absolute' = [absolute EXCEPT ![object.expiration] =
                        updateAbsoluteTime(object.expiration, object.accessed, object.created)]
    /\ expirationCache' = [expirationCache EXCEPT
                              ![e] = Put(@, k, cloneExpirationContainer(object))]

\* expireInternal(key)
expireInternal(e, k) == expirationCache' = [expirationCache EXCEPT ![e] = Delete(@, {k})]

\* (faulty variant) every container that has an Expiration counts as expired
ExpiredOnSight(object) == object.expiration # ExpiresDefault

\* (faulty variant) only the condition of the Expiration is looked at
ExpiredByCondition(object) ==
    /\ object.expiration # ExpiresDefault
    /\ Expiration[object.expiration].condition /\ condition

\* the check both Get and GetWithError make on a container they read:
\* object.expiration != nil && object.expiration.IsExpired(accessed, created)
Expired(object) ==
    /\ object.expiration # ExpiresDefault
    /\ IsExpired(object.expiration, object.accessed, object.created, now, condition)

\* whether a container with this expiration goes into the expiration cache:
\* exp != nil && exp != ExpiresNever
Expirable(expiration) == expiration # ExpiresDefault /\ expiration # ExpiresNever

\* (faulty variant) Set takes the default whatever it is given
SetExpirationDefaultOnly(e, given) == defaultExpiration[e]

\* hoard.go 447-453: the Expiration Set stores: the default of the engine if
\* none is given, else the one given
SetExpiration(e, given) == IF given = "omitted" THEN defaultExpiration[e] ELSE given

\* hoard.go 327-329, 428-430, 490-492: ExpiresDefault is replaced by the default
Substitute(e, expiration) ==
    IF expiration = ExpiresDefault THEN defaultExpiration[e] ELSE expiration

\* the engine the unqualified call Remove(key) inside Get / GetWithError acts on:
\* the package-level Remove, which forwards to SharedHoard()
RemoveTarget(e) == "shared"

\* a mutex id no thread and no table refers to
UsedMutexes ==
    {th[t].mu : t \in Callers} \cup locked
      \cup UNION {{keyDeadbolts[e][k] : k \in DOMAIN keyDeadbolts[e]} : e \in Engines}
NewMutex == CHOOSE m \in 1..(2 * NumThreads + 1) :
                m \notin UsedMutexes /\ \A n \in 1..(m - 1) : n \in UsedMutexes

(***************************************************************************)
(* A caller starts a call                                                  *)
(***************************************************************************)
Call(t) ==
    /\ At(t, "idle")
    /\ t \in cfg.threads
    /\ calls < cfg.budget
    /\ calls' = calls + 1
    /\ \E kind \in cfg.kinds, e \in cfg.engines,
          k \in IF cfg.apart THEN cfg.keys \cap {t} ELSE cfg.keys :
         \/ /\ kind \in Gets
            /\ \E g \in cfg.getters :
                 Step(t, [th[t] EXCEPT !.pc = Entry(kind), !.kind = kind, !.e = e,
                                      !.k = k, !.getter = g,
                                      !.val = IF g THEN calls' ELSE 0])
         \/ /\ kind = "Set"
            /\ \E p \in cfg.policies \cup {"omitted"} :
                 Step(t, [th[t] EXCEPT !.pc = Entry(kind), !.kind = kind, !.e = e,
                                      !.k = k, !.val = calls', !.given = p,
                                      !.pol = SetExpiration(e, p)])
         \/ /\ kind = "SetExpires"
            /\ \E p \in cfg.policies :
                 Step(t, [th[t] EXCEPT !.pc = Entry(kind), !.kind = kind, !.e = e,
                                      !.k = k, !.given = p, !.pol = p])
         \/ /\ kind \in {"Remove", "Has"}
            /\ Step(t, [th[t] EXCEPT !.pc = Entry(kind), !.kind = kind, !.e = e,
                                    !.k = k, !.rmE = e, !.cont = "done"])
    /\ UNCHANGED <<now, condition, shared, defaultExpiration, invoked, cfg>>

\* the call returns to its caller
Return(t) ==
    /\ At(t, "done")
    /\ t \in Threads
    /\ Step(t, [Idle EXCEPT !.prev = Remember(th[t].prev, th[t], cfg.history)])
    /\ UNCHANGED <<now, condition, shared, defaultExpiration, calls, invoked, cfg>>

(***************************************************************************)
(* Get and GetWithError                                                    *)
(***************************************************************************)
\* hoard.go 251-262 / 351-362: the first look at the cache
Check1(t) ==
    /\ At(t, "check1")
    /\ LET e == th[t].e
           k == th[t].k
           object == cacheGet(e, k)
       IN  IF ~cacheHas(e, k)
           THEN Step(t, [th[t] EXCEPT !.pc = "getMutex", !.first = "miss"])
           ELSE IF Expired(object)
           THEN Step(t, [th[t] EXCEPT !.pc = "rmCache", !.rmE = RemoveTarget(e),
                                      !.cont = "getMutex", !.object = object,
                                      !.ok = TRUE, !.first = "stale"])
           ELSE Step(t, [th[t] EXCEPT !.pc = "fastSet", !.object = object,
                                      !.ok = TRUE, !.first = "fresh"])
    /\ UNCHANGED <<now, condition, shared, defaultExpiration, calls, invoked, cfg>>

\* (faulty variant) the short circuit stores the entry as one made now
FastSetRenewed(t) ==
    /\ At(t, "fastSet")
    /\ LET object == [th[t].object EXCEPT !.accessed = now, !.created = now]
       IN  /\ cacheSet(th[t].e, th[t].k, object)
           /\ IF Expirable(object.expiration)
              THEN Step(t, [th[t] EXCEPT !.pc = "fastIndex", !.object = object])
              ELSE Step(t, [th[t] EXCEPT !.pc = "done", !.object = object,
                                         !.ret = Result(object.data, FALSE, TRUE)])
    /\ UNCHANGED <<now, condition, expirationCache, absolute, tickerRunning, ticker,
                   tickerOn, sweeper, keyDeadbolts, locked, defaultExpiration, calls,
                   invoked, cfg>>

\* hoard.go 265-268: the short circuit writes the access time back
FastSet(t) ==
    /\ At(t, "fastSet")
    /\ LET object == [th[t].object EXCEPT !.accessed = now]
       IN  /\ cacheSet(th[t].e, th[t].k, object)
           /\ IF Expirable(object.expiration)
              THEN Step(t, [th[t] EXCEPT !.pc = "fastIndex", !.object = object])
              ELSE Step(t, [th[t] EXCEPT !.pc = "done", !.object = object,
                                         !.ret = Result(object.data, FALSE, TRUE)])
    /\ UNCHANGED <<now, condition, expirationCache, absolute, tickerRunning, ticker,
                   tickerOn, sweeper, keyDeadbolts, locked, defaultExpiration, calls, invoked, cfg>>

\* hoard.go 270-274
FastIndex(t) ==
    /\ At(t, "fastIndex")
    /\ expirationCacheSet(th[t].e, th[t].k, th[t].object)
    /\ Step(t, [th[t] EXCEPT !.pc = "done", !.ret = Result(th[t].object.data, FALSE, TRUE)])
    /\ UNCHANGED <<now, condition, cache, tickerRunning, ticker, tickerOn, sweeper,
                   keyDeadbolts, locked, defaultExpiration, calls, invoked, cfg>>

\* (faulty variant) every call makes a mutex of its own for the key
GetMutexFresh(t) ==
    /\ At(t, "getMutex")
    /\ LET e == th[t].e
           k == th[t].k
           m == NewMutex
       IN  /\ keyDeadbolts' = [keyDeadbolts EXCEPT ![e] = Put(@, k, m)]
           /\ Step(t, [th[t] EXCEPT !.pc = "lock", !.mu = m])
    /\ UNCHANGED <<now, condition, cache, expirationCache, absolute, tickerRunning,
                   ticker, tickerOn, sweeper, locked, defaultExpiration, calls, invoked, cfg>>

\* hoard.go 278-286: look the key's mutex up, making it if it is not there
GetMutex(t) ==
    /\ At(t, "getMutex")
    /\ LET e == th[t].e
           k == th[t].k
           m == IF k \in DOMAIN keyDeadbolts[e] THEN keyDeadbolts[e][k] ELSE NewMutex
       IN  /\ keyDeadbolts' = [keyDeadbolts EXCEPT ![e] = Put(@, k, m)]
           /\ Step(t, [th[t] EXCEPT !.pc = "lock", !.mu = m])
    /\ UNCHANGED <<now, condition, cache, expirationCache, absolute, tickerRunning,
                   ticker, tickerOn, sweeper, locked, defaultExpiration, calls, invoked, cfg>>

\* (faulty variant) a Lock that does not wait for the mutex to be free
LockWithoutWaiting(t) ==
    /\ At(t, "lock")
    /\ locked' = locked \cup {th[t].mu}
    /\ Step(t, [th[t] EXCEPT !.pc = "check2"])
    /\ UNCHANGED <<now, condition, cache, expirationCache, absolute, tickerRunning,
                   ticker, tickerOn, sweeper, keyDeadbolts, defaultExpiration, calls,
                   invoked, cfg>>

\* hoard.go 300: keyDeadbolt.Lock()
\* (faulty variant) one lock for all the keys: waits while any key is locked
LockAllKeys(t) ==
    /\ At(t, "lock")
    /\ locked = {}
    /\ locked' = locked \cup {th[t].mu}
    /\ Step(t, [th[t] EXCEPT !.pc = "check2"])
    /\ UNCHANGED <<now, condition, cache, expirationCache, absolute, tickerRunning,
                   ticker, tickerOn, sweeper, keyDeadbolts, defaultExpiration, calls,
                   invoked, cfg>>

Lock(t) ==
    /\ At(t, "lock")
    /\ th[t].mu \notin locked
    /\ locked' = locked \cup {th[t].mu}
    /\ Step(t, [th[t] EXCEPT !.pc = "check2"])
    /\ UNCHANGED <<now, condition, cache, expirationCache, absolute, tickerRunning,
                   ticker, tickerOn, sweeper, keyDeadbolts, defaultExpiration, calls, invoked, cfg>>

\* hoard.go 305-314 and 333-335: the second look, under the key's mutex
Check2(t) ==
    /\ At(t, "check2")
    /\ LET e == th[t].e
           k == th[t].k
           object == cacheGet(e, k)
       IN  IF ~cacheHas(e, k)
           THEN Step(t, [th[t] EXCEPT !.pc = "miss", !.ok = FALSE, !.object = NoObject,
                                      !.second = "miss"])
           ELSE IF Expired(object)
           THEN Step(t, [th[t] EXCEPT !.pc = "rmCache", !.rmE = RemoveTarget(e),
                                      !.cont = "miss", !.object = object,
                                      !.ok = FALSE, !.second = "stale"])
           ELSE Step(t, [th[t] EXCEPT !.pc = "unlock", !.object = object, !.ok = TRUE,
                                      !.second = "fresh",
                                      !.ret = Result(object.data, FALSE, TRUE)])
    /\ UNCHANGED <<now, condition, shared, defaultExpiration, calls, invoked, cfg>>

\* (faulty variant) without a dataGetter the call returns with the key still locked
MissReturnsLocked(t) ==
    /\ At(t, "miss")
    /\ IF th[t].getter
       THEN /\ Step(t, [th[t] EXCEPT !.pc = "producing", !.called = @ + 1])
            /\ invoked' = [invoked EXCEPT ![th[t].e][th[t].k] =
                                         IF cfg.count THEN @ + 1 ELSE @]
       ELSE /\ Step(t, [th[t] EXCEPT !.pc = "done", !.ret = NoResult])
            /\ UNCHANGED invoked
    /\ UNCHANGED <<now, condition, shared, defaultExpiration, calls, cfg>>

\* hoard.go 316-325: nothing usable in the cache
Miss(t) ==
    /\ At(t, "miss")
    /\ IF th[t].getter
       THEN /\ Step(t, [th[t] EXCEPT !.pc = "producing", !.called = @ + 1])
            /\ invoked' = [invoked EXCEPT ![th[t].e][th[t].k] =
                                         IF cfg.count THEN @ + 1 ELSE @]
       ELSE /\ Step(t, [th[t] EXCEPT !.pc = "unlock", !.ret = NoResult])
            /\ UNCHANGED invoked
    /\ UNCHANGED <<now, condition, shared, defaultExpiration, calls, cfg>>

\* whether the dataGetter of thread t calls Get itself
Nests(t) == cfg.nest /\ t \in Threads

\* a dataGetter that calls h.Get(other key, dataGetter) (TestHoard_ReEntry):
\* the nested call starts, in the frame of the thread
Nest(t) ==
    /\ At(t, "producing")
    /\ Nests(t)
    /\ At(Frame(t), "idle")
    /\ \E k \in cfg.keys \ {th[t].k} :
         Step(Frame(t), [Idle EXCEPT !.pc = Entry("Get"), !.kind = "Get",
                                     !.e = th[t].e, !.k = k, !.getter = TRUE,
                                     !.val = th[t].val])
    /\ UNCHANGED <<now, condition, shared, defaultExpiration, calls, invoked, cfg>>

\* (faulty variant) GetWithError returns the value of its dataGetter without
\* storing it
ProducerReturnUnstored(t) ==
    /\ At(t, "producing")
    /\ Nests(t) => At(Frame(t), "done")
    /\ th[t].k \notin cfg.hang
    /\ \E p \in cfg.policies,
          er \in IF th[t].kind = "GetWithError" THEN BOOLEAN ELSE {FALSE} :
         LET v == IF Nests(t) THEN th[Frame(t)].ret.data ELSE th[t].val
             f == IF th[t].kind = "GetWithError"
                  THEN [th[t] EXCEPT !.pc = "unlock", !.val = v, !.err = er,
                                     !.ret = Result(v, er, ~er)]
                  ELSE [th[t] EXCEPT !.pc = "setCache", !.val = v, !.given = p,
                                     !.pol = Substitute(th[t].e, p),
                                     !.ret = Result(v, FALSE, TRUE)]
         IN  IF Nests(t)
             THEN th' = [th EXCEPT ![t] = f, ![Frame(t)] = Idle]
             ELSE Step(t, f)
    /\ UNCHANGED <<now, condition, shared, defaultExpiration, calls, invoked, cfg>>

\* hoard.go 325-331 / 422-432: the dataGetter returns (what its nested Get
\* returned, if it made one)
ProducerReturn(t) ==
    /\ At(t, "producing")
    /\ Nests(t) => At(Frame(t), "done")
    /\ th[t].k \notin cfg.hang
    /\ \E p \in cfg.policies,
          er \in IF th[t].kind = "GetWithError" THEN BOOLEAN ELSE {FALSE} :
         LET v == IF Nests(t) THEN th[Frame(t)].ret.data ELSE th[t].val
             f == IF er
                  THEN [th[t] EXCEPT !.pc = "unlock", !.val = v, !.err = TRUE,
                                     !.ret = Result(v, TRUE, FALSE)]
                  ELSE [th[t] EXCEPT !.pc = "setCache", !.val = v, !.given = p,
                                     !.pol = Substitute(th[t].e, p),
                                     !.ret = Result(v, FALSE, TRUE)]
         IN  IF Nests(t)
             THEN th' = [th EXCEPT ![t] = f, ![Frame(t)] = Idle]
             ELSE Step(t, f)
    /\ UNCHANGED <<now, condition, shared, defaultExpiration, calls, invoked, cfg>>

\* hoard.go 289-290: the deferred keyDeadbolt.Unlock()
\* (faulty variant) the key's mutex is never unlocked
UnlockForgotten(t) ==
    /\ At(t, "unlock")
    /\ Step(t, [th[t] EXCEPT !.pc = "delMutex"])
    /\ UNCHANGED <<now, condition, cache, expirationCache, absolute, tickerRunning,
                   ticker, tickerOn, sweeper, keyDeadbolts, defaultExpiration, calls,
                   invoked, cfg, locked>>

Unlock(t) ==
    /\ At(t, "unlock")
    /\ locked' = locked \ {th[t].mu}
    /\ Step(t, [th[t] EXCEPT !.pc = "delMutex"])
    /\ UNCHANGED <<now, condition, cache, expirationCache, absolute, tickerRunning,
                   ticker, tickerOn, sweeper, keyDeadbolts, defaultExpiration, calls, invoked, cfg>>

\* (faulty variant) the key's entry stays in the map of mutexes
DelMutexSkipped(t) ==
    /\ At(t, "delMutex")
    /\ Step(t, [th[t] EXCEPT !.pc = "done"])
    /\ UNCHANGED <<now, condition, shared, defaultExpiration, calls, invoked, cfg>>

\* hoard.go 293-295: the deferred delete(h.keyDeadbolts, key)
DelMutex(t) ==
    /\ At(t, "delMutex")
    /\ keyDeadbolts' = [keyDeadbolts EXCEPT ![th[t].e] = Delete(@, {th[t].k})]
    /\ Step(t, [th[t] EXCEPT !.pc = "done"])
    /\ UNCHANGED <<now, condition, cache, expirationCache, absolute, tickerRunning,
                   ticker, tickerOn, sweeper, locked, defaultExpiration, calls, invoked, cfg>>

(***************************************************************************)
(* Set (also the store at the end of Get / GetWithError)                   *)
(***************************************************************************)
\* hoard.go 455-456
SetCache(t) ==
    /\ At(t, "setCache")
    /\ LET object == container(th[t].val, now, now, th[t].pol)
       IN  /\ cacheSet(th[t].e, th[t].k, object)
           /\ Step(t, [th[t] EXCEPT !.object = object, !.stored = TRUE,
                                    !.pc = IF Expirable(object.expiration)
                                           THEN "setIndex" ELSE AfterSet(th[t].kind)])
    /\ UNCHANGED <<now, condition, expirationCache, absolute, tickerRunning, ticker,
                   tickerOn, sweeper, keyDeadbolts, locked, defaultExpiration, calls, invoked, cfg>>

\* hoard.go 459
SetIndex(t) ==
    /\ At(t, "setIndex")
    /\ expirationCacheSet(th[t].e, th[t].k, th[t].object)
    /\ Step(t, [th[t] EXCEPT !.pc = "sfm1"])
    /\ UNCHANGED <<now, condition, cache, tickerRunning, ticker, tickerOn, sweeper,
                   keyDeadbolts, locked, defaultExpiration, calls, invoked, cfg>>

\* startFlushManager, hoard.go 94: if !h.getTickerRunning()
StartFlushManagerTest(t) ==
    /\ At(t, "sfm1")
    /\ Step(t, [th[t] EXCEPT !.pc = IF tickerRunning[th[t].e]
                                    THEN AfterSet(th[t].kind) ELSE "sfm2"])
    /\ UNCHANGED <<now, condition, shared, defaultExpiration, calls, invoked, cfg>>

\* startFlushManager, hoard.go 95: h.setTickerRunning(true)
StartFlushManagerSet(t) ==
    /\ At(t, "sfm2")
    /\ tickerRunning' = [tickerRunning EXCEPT ![th[t].e] = TRUE]
    /\ Step(t, [th[t] EXCEPT !.pc = "sfm3"])
    /\ UNCHANGED <<now, condition, cache, expirationCache, absolute, ticker, tickerOn,
                   sweeper, keyDeadbolts, locked, defaultExpiration, calls, invoked, cfg>>

\* startFlushManager, hoard.go 97-99: a new ticker and a goroutine ranging over it
NewTicker(e) == CHOOSE i \in 1..(Cardinality(DOMAIN sweeper[e]) + 1) :
                    i \notin DOMAIN sweeper[e]
                      /\ \A j \in 1..(i - 1) : j \in DOMAIN sweeper[e]
StartFlushManagerGo(t) ==
    /\ At(t, "sfm3")
    /\ LET e == th[t].e
           i == NewTicker(e)
       IN  /\ ticker' = [ticker EXCEPT ![e] = i]
           /\ tickerOn' = [tickerOn EXCEPT ![e] = @ \cup {i}]
           /\ sweeper' = [sweeper EXCEPT ![e] = Put(@, i, Waiting)]
    /\ Step(t, [th[t] EXCEPT !.pc = AfterSet(th[t].kind)])
    /\ UNCHANGED <<now, condition, cache, expirationCache, absolute, tickerRunning,
                   keyDeadbolts, locked, defaultExpiration, calls, invoked, cfg>>

(***************************************************************************)
(* Remove (also the body of the package-level Remove that Get calls)       *)
(***************************************************************************)
\* (faulty variant) a Remove that leaves the cache as it is
RemoveCacheSkipped(t) ==
    /\ At(t, "rmCache")
    /\ Step(t, [th[t] EXCEPT !.pc = "rmIndex"])
    /\ UNCHANGED <<now, condition, shared, defaultExpiration, calls, invoked, cfg>>

\* hoard.go 474-476
RemoveCache(t) ==
    /\ At(t, "rmCache")
    /\ cache' = [cache EXCEPT ![th[t].rmE] = Delete(@, {th[t].k})]
    /\ Step(t, [th[t] EXCEPT !.pc = "rmIndex"])
    /\ UNCHANGED <<now, condition, expirationCache, absolute, tickerRunning, ticker,
                   tickerOn, sweeper, keyDeadbolts, locked, defaultExpiration, calls, invoked, cfg>>

\* (faulty variant) a Remove that leaves the index of expiring keys as it is
RemoveIndexSkipped(t) ==
    /\ At(t, "rmIndex")
    /\ Step(t, [th[t] EXCEPT !.pc = th[t].cont])
    /\ UNCHANGED <<now, condition, shared, defaultExpiration, calls, invoked, cfg>>

\* hoard.go 477: h.expireInternal(key)
RemoveIndex(t) ==
    /\ At(t, "rmIndex")
    /\ expireInternal(th[t].rmE, th[t].k)
    /\ Step(t, [th[t] EXCEPT !.pc = th[t].cont])
    /\ UNCHANGED <<now, condition, cache, absolute, tickerRunning, ticker, tickerOn,
                   sweeper, keyDeadbolts, locked, defaultExpiration, calls, invoked, cfg>>

(***************************************************************************)
(* SetExpires and Has                                                      *)
(***************************************************************************)
\* hoard.go 484-495
\* (faulty variant) SetExpires does not test that the key is there
SetExpiresGetUntested(t) ==
    /\ At(t, "sxGet")
    /\ LET e == th[t].e
           k == th[t].k
           expiration == Substitute(e, th[t].pol)
       IN  Step(t, [th[t] EXCEPT !.pc = "sxSet", !.ok = TRUE, !.pol = expiration,
                                 !.object = [cacheGet(e, k) EXCEPT
                                                !.expiration = expiration]])
    /\ UNCHANGED <<now, condition, shared, defaultExpiration, calls, invoked, cfg>>

SetExpiresGet(t) ==
    /\ At(t, "sxGet")
    /\ LET e == th[t].e
           k == th[t].k
           expiration == Substitute(e, th[t].pol)
       IN  IF ~cacheHas(e, k)
           THEN Step(t, [th[t] EXCEPT !.pc = "done", !.ret = Result(0, FALSE, FALSE)])
           ELSE Step(t, [th[t] EXCEPT !.pc = "sxSet", !.ok = TRUE, !.pol = expiration,
                                      !.object = [cacheGet(e, k) EXCEPT
                                                     !.expiration = expiration]])
    /\ UNCHANGED <<now, condition, shared, defaultExpiration, calls, invoked, cfg>>

\* (faulty variant) SetExpires stores the entry as one made and accessed now
SetExpiresSetRenewed(t) ==
    /\ At(t, "sxSet")
    /\ cacheSet(th[t].e, th[t].k, [th[t].object EXCEPT !.created = now, !.accessed = now])
    /\ Step(t, [th[t] EXCEPT !.pc = "sxIndex"])
    /\ UNCHANGED <<now, condition, expirationCache, absolute, tickerRunning, ticker,
                   tickerOn, sweeper, keyDeadbolts, locked, defaultExpiration, calls,
                   invoked, cfg>>

\* hoard.go 498
SetExpiresSet(t) ==
    /\ At(t, "sxSet")
    /\ cacheSet(th[t].e, th[t].k, th[t].object)
    /\ Step(t, [th[t] EXCEPT !.pc = "sxIndex"])
    /\ UNCHANGED <<now, condition, expirationCache, absolute, tickerRunning, ticker,
                   tickerOn, sweeper, keyDeadbolts, locked, defaultExpiration, calls, invoked, cfg>>

\* hoard.go 500-506
SetExpiresIndex(t) ==
    /\ At(t, "sxIndex")
    /\ IF th[t].pol = ExpiresNever \/ th[t].pol = ExpiresDefault
       THEN expireInternal(th[t].e, th[t].k) /\ UNCHANGED absolute
       ELSE expirationCacheSet(th[t].e, th[t].k, th[t].object)
    /\ Step(t, [th[t] EXCEPT !.pc = "done", !.ret = Result(0, FALSE, TRUE)])
    /\ UNCHANGED <<now, condition, cache, tickerRunning, ticker, tickerOn, sweeper,
                   keyDeadbolts, locked, defaultExpiration, calls, invoked, cfg>>

\* (faulty variant) a Has that does not count an expired entry
HasUnexpired(t) ==
    /\ At(t, "has")
    /\ Step(t, [th[t] EXCEPT !.pc = "done",
                             !.ret = Result(0, FALSE,
                                            /\ cacheHas(th[t].e, th[t].k)
                                            /\ ~Expired(cacheGet(th[t].e, th[t].k)))])
    /\ UNCHANGED <<now, condition, shared, defaultExpiration, calls, invoked, cfg>>

\* hoard.go 465-470
Has(t) ==
    /\ At(t, "has")
    /\ Step(t, [th[t] EXCEPT !.pc = "done",
                             !.ret = Result(0, FALSE, cacheHas(th[t].e, th[t].k))])
    /\ UNCHANGED <<now, condition, shared, defaultExpiration, calls, invoked, cfg>>

(***************************************************************************)
(* The flush goroutine started by startFlushManager, hoard.go 99-135       *)
(***************************************************************************)
\* a goroutine whose ticker is stopped and which waits for the next tick
\* never runs again: it is dropped from the model
Live(sw, on) == [i \in {j \in DOMAIN sw : sw[j].pc # "wait" \/ j \in on} |-> sw[i]]

\* hoard.go 100-116: a tick arrives; the scan under the read lock
SweepScan(e, i) ==
    /\ i \in DOMAIN sweeper[e]
    /\ sweeper[e][i].pc = "wait"
    /\ i \in tickerOn[e]
    /\ LET expirations ==
               {k \in DOMAIN expirationCache[e] :
                   /\ expirationCache[e][k].expiration # ExpiresDefault
                   /\ isExpiredAbsolute(expirationCache[e][k].expiration,
                                        absolute[expirationCache[e][k].expiration],
                                        now, condition)}
       IN  sweeper' = [sweeper EXCEPT ![e][i] =
               IF DOMAIN expirationCache[e] = {}
               THEN [Waiting EXCEPT !.pc = "stop"]
               ELSE IF expirations # {}
               THEN [pc |-> "delete", expirations |-> expirations,
                     judged |-> [k \in expirations |-> expirationCache[e][k]]]
               ELSE @]
    /\ UNCHANGED <<now, condition, cache, expirationCache, absolute, tickerRunning,
                   ticker, tickerOn, keyDeadbolts, locked, th, defaultExpiration,
                   calls, invoked, cfg>>

\* hoard.go 118-129: the deletion under both write locks
SweepDelete(e, i) ==
    /\ i \in DOMAIN sweeper[e]
    /\ sweeper[e][i].pc = "delete"
    /\ cache' = [cache EXCEPT ![e] = Delete(@, sweeper[e][i].expirations)]
    /\ expirationCache' = [expirationCache EXCEPT ![e] = Delete(@, sweeper[e][i].expirations)]
    /\ sweeper' = [sweeper EXCEPT ![e] =
                      Live([@ EXCEPT ![i] = Waiting],
                           tickerOn[e])]
    /\ UNCHANGED <<now, condition, absolute, tickerRunning, ticker, tickerOn,
                   keyDeadbolts, locked, th, defaultExpiration, calls, invoked, cfg>>

\* hoard.go 131-132: h.ticker.Stop(); h.setTickerRunning(false)
SweepStop(e, i) ==
    /\ i \in DOMAIN sweeper[e]
    /\ sweeper[e][i].pc = "stop"
    /\ tickerOn' = [tickerOn EXCEPT ![e] = @ \ {ticker[e]}]
    /\ tickerRunning' = [tickerRunning EXCEPT ![e] = FALSE]
    /\ sweeper' = [sweeper EXCEPT ![e] =
                      Live([@ EXCEPT ![i] = Waiting],
                           tickerOn'[e])]
    /\ UNCHANGED <<now, condition, cache, expirationCache, absolute, ticker,
                   keyDeadbolts, locked, th, defaultExpiration, calls, invoked, cfg>>

(***************************************************************************)
(* The environment: the clock and the caller's condition function          *)
(***************************************************************************)
AdvanceTime ==
    /\ now < MaxTime
    /\ now' = now + 1
    /\ UNCHANGED <<condition, shared, th, defaultExpiration, calls, invoked, cfg>>

SetCondition ==
    /\ \E p \in cfg.policies \ {ExpiresDefault} : Expiration[p].condition
    /\ condition' = ~condition
    /\ UNCHANGED <<now, shared, th, defaultExpiration, calls, invoked, cfg>>

(***************************************************************************)
(* Specifications                                                          *)
(***************************************************************************)
GetStep(t) ==
    \/ Check1(t) \/ FastSet(t) \/ FastIndex(t) \/ GetMutex(t) \/ Lock(t)
    \/ Check2(t) \/ Miss(t) \/ ProducerReturn(t) \/ Unlock(t) \/ DelMutex(t)
SetStep(t) ==
    \/ SetCache(t) \/ SetIndex(t) \/ StartFlushManagerTest(t)
    \/ StartFlushManagerSet(t) \/ StartFlushManagerGo(t)
RemoveStep(t) == RemoveCache(t) \/ RemoveIndex(t)
SetExpiresStep(t) == SetExpiresGet(t) \/ SetExpiresSet(t) \/ SetExpiresIndex(t)
SweepStep(e, i) == SweepScan(e, i) \/ SweepDelete(e, i) \/ SweepStop(e, i)

EnvStep == AdvanceTime \/ SetCondition

(***************************************************************************)
(* Single flight: every thread calls Get or GetWithError with a dataGetter *)
(* on the one key of "own"; the dataGetters return ExpiresNever or an      *)
(* error.                                                                  *)
(***************************************************************************)
FlightScenario ==
    Scenario(Threads, Gets, {"own"}, {ExpiresNever}, {TRUE}, ExpiresNever, 0, FALSE)
FlightInit == InitWith(FlightScenario)
FlightNext ==
    \E t \in Threads :
        \/ Call(t) \/ Return(t) \/ Check1(t) \/ FastSet(t) \/ GetMutex(t) \/ Lock(t)
        \/ Check2(t) \/ Miss(t) \/ ProducerReturn(t) \/ SetCache(t) \/ Unlock(t)
        \/ DelMutex(t)
SpecFlight == FlightInit /\ [][FlightNext]_vars

\* the threads whose dataGetter for key k of engine e is running
Producing(e, k) == {t \in Threads : At(t, "producing") /\ th[t].e = e /\ th[t].k = k}

\* C1: for any one key on one engine, at most one dataGetter invocation is
\* executing at any time, in every interleaving of Get and GetWithError calls.
C1_SingleFlight == \A e \in Engines, k \in Keys : Cardinality(Producing(e, k)) <= 1

(***************************************************************************)
(* Get safety (TestHoard_GetSafety): the threads call Get with a           *)
(* dataGetter that returns ExpiresNever, on one of the engines, while the   *)
(* clock runs; nothing else touches the key.  The dataGetter invocations   *)
(* are counted.                                                            *)
(***************************************************************************)
SafetyScenarios ==
    {[Scenario(Threads, {"Get"}, {"own"}, {ExpiresNever}, {TRUE}, ExpiresNever, 0, TRUE)
        EXCEPT !.budget = MaxCalls + 1],
     Scenario(Threads, {"Get"}, {"shared"}, {ExpiresNever}, {TRUE}, ExpiresNever, 0, TRUE)}
SafetyInit == \E c \in SafetyScenarios : InitWith(c)
SafetyNext ==
    \/ \E t \in Threads :
        \/ Call(t) \/ Return(t) \/ Check1(t) \/ FastSet(t) \/ GetMutex(t) \/ Lock(t)
        \/ Check2(t) \/ Miss(t) \/ ProducerReturn(t) \/ SetCache(t) \/ Unlock(t)
        \/ DelMutex(t)
    \/ AdvanceTime
SpecSafety == SafetyInit /\ [][SafetyNext]_vars

\* C2: concurrent Get(k, producer) calls on an initially absent key, whose
\* producer returns ExpiresNever and with nothing removing k, invoke the
\* producer exactly once in total, and every call returns what that one
\* invocation produced (the data stored under k).
C2_GetSafety ==
    /\ \A e \in Engines, k \in Keys : invoked[e][k] <= 1
    /\ \A t \in Threads :
         At(t, "done") =>
            /\ invoked[th[t].e][th[t].k] = 1
            /\ cacheHas(th[t].e, th[t].k)
            /\ th[t].ret = Result(cache[th[t].e][th[t].k].data, FALSE, TRUE)

\* all threads have returned from concurrent calls on the same key: one ran
\* the producer, one found the value on the second look, one on the first
C2_Witness ==
    /\ \A t \in Threads : At(t, "done") /\ th[t].e = "own" /\ th[t].ret.data = th[1].ret.data
    /\ \E t \in Threads : th[t].called = 1
    /\ \E t \in Threads : th[t].second = "fresh"
    /\ \E t \in Threads : th[t].first = "fresh"

(***************************************************************************)
(* The default specification                                               *)
(***************************************************************************)

\* One caller at a time: every kind of call on both engines, with the
\* sweeper, the clock and the condition running beside it
AllKinds == {"Get", "GetWithError", "Set", "Remove", "SetExpires", "Has"}
SeqScenarios ==
    {Scenario({1}, AllKinds, {"own"}, {ExpiresNever, p}, BOOLEAN, ExpiresNever,
              1, FALSE) : p \in {"pdur", "pidle", "pdate", "pcond"}}
      \cup {Scenario({1}, AllKinds, Engines, {ExpiresNever, "pcond"}, BOOLEAN,
                     ExpiresNever, 0, FALSE)}
Init == \E c \in SeqScenarios : InitWith(c)
Next ==
    \/ \E t \in Threads :
         \/ Call(t) \/ Return(t) \/ GetStep(t) \/ SetStep(t) \/ RemoveStep(t)
         \/ SetExpiresStep(t) \/ Has(t)
    \/ \E e \in Engines : \E i \in Tickers : SweepStep(e, i)
    \/ EnvStep

Spec == Init /\ [][Next]_vars

(***************************************************************************)
(* Staleness as the specification defines it: the OR of the sub-conditions *)
(* that are set, evaluated on the stored entry at the present moment.      *)
(***************************************************************************)
HasPolicy(object) == object.expiration \in ExpirationObjects
Stale(object) ==
    /\ HasPolicy(object)
    /\ LET p == Expiration[object.expiration]
       IN  \/ p.duration # 0 /\ now - object.created > p.duration
           \/ p.idle # 0 /\ now - object.accessed > p.idle
           \/ p.date # 0 /\ now > p.date
           \/ p.condition /\ condition

\* thread t takes a step of its call
Steps(t) == th'[t] # th[t] /\ ~At(t, "idle") /\ ~At(t, "done")

\* thread t looks key k up (first or second look) and the entry is there
Looks(t) ==
    /\ Steps(t)
    /\ At(t, "check1") \/ At(t, "check2")
    /\ cacheHas(th[t].e, th[t].k)
Found(t) == cache[th[t].e][th[t].k]

\* C3: once a key holds a fresh entry (written by Set or by a dataGetter),
\* a later Get / GetWithError that looks the key up while the entry is still
\* there and not stale takes the entry as it is stored, returns its data and
\* does not invoke its dataGetter.
C3_FreshLook ==
    \A t \in Threads :
        Looks(t) /\ At(t, "check1") /\ ~Stale(Found(t)) =>
            th'[t].first = "fresh" /\ th'[t].object = Found(t)
C3_FreshReturn ==
    \A t \in Threads :
        At(t, "done") /\ th[t].kind \in Gets /\ th[t].first = "fresh" =>
            /\ th[t].ret = Result(th[t].object.data, FALSE, TRUE)
            /\ th[t].called = 0
C3_FreshHit == []C3_FreshReturn /\ [][C3_FreshLook]_vars

\* a Get with a dataGetter has returned the stored value without invoking it
C3_Witness ==
    \E t \in Threads :
        /\ At(t, "done") /\ th[t].kind = "Get" /\ th[t].getter
        /\ th[t].first = "fresh" /\ th[t].called = 0
        /\ th[t].ret.data \in Values /\ th[t].ret.data # th[t].val
        /\ th[t].object.expiration = "pdur"

\* the call of thread t found the entry of its key stale, and did not find it
\* fresh afterwards
FoundStale(t) ==
    \/ th[t].second = "stale"
    \/ th[t].first = "stale" /\ th[t].second = "miss"

\* a look at an entry that is stale at that moment takes it as stale
StaleLook ==
    \A t \in Threads :
        Looks(t) /\ Stale(Found(t)) =>
            /\ At(t, "check1") => th'[t].first = "stale"
            /\ At(t, "check2") => th'[t].second = "stale"
            /\ th'[t].pc = "rmCache"

\* the store at the end of a call puts the call's value under its key
StoreStep ==
    \A t \in Threads :
        Steps(t) /\ At(t, "setCache") =>
            /\ cacheHas(th[t].e, th[t].k)'
            /\ cache'[th[t].e][th[t].k].data = th[t].val

\* C4 as stated: Get and GetWithError never return the stored value of an
\* entry that is stale when the call looks at it; the dataGetter, if there is
\* one, is invoked instead and its value is returned and stored; with no
\* dataGetter the absent result is returned.
C4_ReturnedAndStored ==
    \A t \in Threads :
        At(t, "done") /\ th[t].kind \in Gets /\ FoundStale(t) =>
            IF th[t].getter
            THEN th[t].called = 1 /\ th[t].ret.data = th[t].val /\ th[t].stored
            ELSE th[t].called = 0 /\ th[t].ret = NoResult /\ ~th[t].stored
C4_StaleNotReturned ==
    []C4_ReturnedAndStored /\ [][StaleLook]_vars /\ [][StoreStep]_vars

\* C4, amended: as above, but the value is stored only if the dataGetter
\* returned no error; a GetWithError whose dataGetter returned an error
\* returns the value with the error and stores nothing.
C4_ReturnedStoredUnlessError ==
    \A t \in Threads :
        At(t, "done") /\ th[t].kind \in Gets /\ FoundStale(t) =>
            IF th[t].getter
            THEN /\ th[t].called = 1
                 /\ th[t].ret.data = th[t].val /\ th[t].ret.err = th[t].err
                 /\ th[t].stored = ~th[t].err
            ELSE th[t].called = 0 /\ th[t].ret = NoResult /\ ~th[t].stored
C4_StaleNotReturnedAmended ==
    []C4_ReturnedStoredUnlessError /\ [][StaleLook]_vars /\ [][StoreStep]_vars

\* a GetWithError found the entry stale by its duration, invoked its
\* dataGetter, got an error and returned the value without storing it
C4_Witness ==
    \E t \in Threads :
        /\ At(t, "done") /\ th[t].kind = "GetWithError" /\ th[t].getter
        /\ th[t].second = "stale" /\ th[t].called = 1 /\ th[t].err
        /\ th[t].ret = Result(th[t].val, TRUE, FALSE) /\ ~th[t].stored
        /\ th[t].object.expiration = "pdur"

\* the call thread t made before the present one was a GetWithError on the
\* same engine and key whose dataGetter returned an error
AfterError(t) ==
    /\ th[t].prev # <<>>
    /\ th[t].prev[Len(th[t].prev)] =
          [kind |-> "GetWithError", e |-> th[t].e, k |-> th[t].k, err |-> TRUE,
           stored |-> FALSE]

\* from the dataGetter's error on, the call writes nothing
ErrorWritesNothing ==
    \A t \in Threads :
        Steps(t) /\ th'[t].err => UNCHANGED <<cache, expirationCache>>

\* C5: when the dataGetter of a GetWithError returns an error, the cache and
\* the expiration cache stay as they were, the error is returned with the
\* dataGetter's data, and the next GetWithError for that key invokes its
\* dataGetter again.
C5_ErrorReturned ==
    \A t \in Threads :
        At(t, "done") /\ th[t].kind = "GetWithError" =>
            /\ th[t].err => th[t].ret = Result(th[t].val, TRUE, FALSE) /\ ~th[t].stored
            /\ th[t].getter /\ AfterError(t) => th[t].called = 1
C5_NoNegativeCaching == []C5_ErrorReturned /\ [][ErrorWritesNothing]_vars

\* C6: an entry whose current Expiration is ExpiresNever is never removed by
\* the flush goroutine: a step that is no step of a call (a sweep, the clock,
\* the condition) leaves every such key in the cache.
C6_NeverStays ==
    \A e \in Engines, k \in Keys :
        /\ th' = th
        /\ cacheHas(e, k)
        /\ cache[e][k].expiration = ExpiresNever
        => cacheHas(e, k)'
C6_NeverNotSwept == [][C6_NeverStays]_vars

(***************************************************************************)
(* Reclaiming: one caller writes entries of "own" with Set, SetExpires or  *)
(* a dataGetter, with ExpiresNever or a duration, while the clock runs;    *)
(* every flush goroutine keeps getting its ticks and keeps running.        *)
(***************************************************************************)
SweepScenario ==
    Scenario({1}, {"Get", "GetWithError", "Set", "SetExpires"}, {"own"},
             {ExpiresNever, "pdur"}, {TRUE}, ExpiresNever, 0, FALSE)
SweepInit == InitWith(SweepScenario)
SweepNext ==
    \/ \E t \in Threads :
         \/ Call(t) \/ Return(t) \/ GetStep(t) \/ SetStep(t) \/ RemoveStep(t)
         \/ SetExpiresStep(t)
    \/ \E e \in Engines : \E i \in Tickers : SweepStep(e, i)
    \/ AdvanceTime
SweepFairness == \A e \in Engines : \A i \in Tickers : WF_vars(SweepStep(e, i))
SpecSweep == SweepInit /\ [][SweepNext]_vars /\ SweepFairness

\* no call is in progress
Quiet == \A t \in Threads : At(t, "idle")

\* the Expiration of the entry has a duration, an idle time or a date
TimeBased(object) ==
    /\ HasPolicy(object)
    /\ \/ Expiration[object.expiration].duration # 0
       \/ Expiration[object.expiration].idle # 0
       \/ Expiration[object.expiration].date # 0

\* C7: an entry with a time-based Expiration, however it was written (Set,
\* a dataGetter, SetExpires), that has become stale while no call is in
\* progress is eventually removed from the cache and the expiration cache by
\* the flush goroutine, unless a caller starts another call first.
C7_Reclaimed ==
    \A e \in Engines, k \in Keys :
        (Quiet /\ cacheHas(e, k) /\ TimeBased(cache[e][k]) /\ Stale(cache[e][k]))
            ~> (~Quiet \/ (~cacheHas(e, k) /\ k \notin DOMAIN expirationCache[e]))

\* engine e keeps its cache and its expiration cache in this step
Untouched(e) == cache'[e] = cache[e] /\ expirationCache'[e] = expirationCache[e]

\* C8: engines do not share state: a step of a call made on one engine, and a
\* step of one engine's flush goroutine, leave the cache and the expiration
\* cache of every other engine as they are.
C8_OwnEngineOnly ==
    /\ \A t \in Threads :
         Steps(t) => \A e \in Engines \ {th[t].e} : Untouched(e)
    /\ \A e \in Engines :
         sweeper'[e] # sweeper[e] => \A o \in Engines \ {e} : Untouched(o)
C8_EnginesIndependent == [][C8_OwnEngineOnly]_vars

\* C9: when a Get or GetWithError without a dataGetter has found the entry
\* of its key stale, the key is in neither the cache nor the expiration
\* cache of that engine once the call has returned (no other caller being
\* there to write it back).
C9_StaleRemoved ==
    \A t \in Threads :
        At(t, "done") /\ th[t].kind \in Gets /\ ~th[t].getter /\ FoundStale(t) =>
            /\ ~cacheHas(th[t].e, th[t].k)
            /\ th[t].k \notin DOMAIN expirationCache[th[t].e]

(***************************************************************************)
(* Remove then reload (TestHoard_Remove): one caller makes Get calls with  *)
(* a dataGetter, Remove calls and Has calls on "own", and remembers them;  *)
(* the flush goroutine and the clock run beside it.                        *)
(***************************************************************************)
ReloadScenario ==
    [Scenario({1}, {"Get", "Remove", "Has"}, {"own"}, {ExpiresNever, "pdur"},
              {TRUE}, ExpiresNever, 3, FALSE)
        EXCEPT !.budget = MaxCalls + 1]
ReloadInit == InitWith(ReloadScenario)
ReloadNext ==
    \/ \E t \in Threads :
         \/ Call(t) \/ Return(t) \/ GetStep(t) \/ SetStep(t) \/ RemoveStep(t) \/ Has(t)
    \/ \E e \in Engines : \E i \in Tickers : SweepStep(e, i)
    \/ AdvanceTime
SpecReload == ReloadInit /\ [][ReloadNext]_vars

\* among the calls thread t made before the present one, on the engine and
\* key of the present one: a Get that stored its dataGetter's value, then a
\* Remove, then nothing but Has
Removed(t) ==
    \E i \in 2..Len(th[t].prev) :
        /\ th[t].prev[i - 1] = [kind |-> "Get", e |-> th[t].e, k |-> th[t].k,
                                err |-> FALSE, stored |-> TRUE]
        /\ th[t].prev[i] = [kind |-> "Remove", e |-> th[t].e, k |-> th[t].k,
                            err |-> FALSE, stored |-> FALSE]
        /\ \A j \in (i + 1)..Len(th[t].prev) : th[t].prev[j].kind = "Has"

\* C10: after a Get stored its dataGetter's value and a Remove of the key
\* completed, Has reports the key absent, and the next Get invokes its
\* dataGetter exactly once and returns and stores that value; when that value
\* is stored with ExpiresNever nothing of the removed entry is left in the
\* expiration cache.
C10_Reloaded ==
    \A t \in Threads :
        At(t, "done") /\ Removed(t) =>
            /\ th[t].kind = "Has" => ~th[t].ret.ok
            /\ th[t].kind = "Get" =>
                 /\ th[t].called = 1
                 /\ th[t].ret = Result(th[t].val, FALSE, TRUE)
                 /\ th[t].stored
                 /\ th[t].pol = ExpiresNever =>
                      th[t].k \notin DOMAIN expirationCache[th[t].e]
C10_RemoveThenReload == []C10_Reloaded /\ [][StoreStep]_vars

\* Get, Remove, Has, Get: the last Get has returned its own dataGetter's value
C10_Witness ==
    \E t \in Threads :
        /\ At(t, "done") /\ th[t].kind = "Get" /\ Removed(t)
        /\ Len(th[t].prev) = 3 /\ th[t].prev[3].kind = "Has"
        /\ th[t].called = 1 /\ th[t].ret.data = th[t].val
        /\ cacheHas(th[t].e, th[t].k) /\ cache[th[t].e][th[t].k].data = th[t].val

(***************************************************************************)
(* Defaults (TestHoard_UseDefault, TestHoard_OverrideDefault): one caller  *)
(* on an engine made with ExpiresNever or with an idle time as its         *)
(* default; Set is called with and without an Expiration, the dataGetters  *)
(* return ExpiresDefault, ExpiresNever or a condition.                     *)
(***************************************************************************)
DefaultScenarios ==
    {Scenario({1}, {"Get", "GetWithError", "Set"}, {"own"},
              {ExpiresDefault, ExpiresNever, "pcond"}, {TRUE}, D, 0, FALSE) :
        D \in {ExpiresNever, "pidle"}}
DefaultInit == \E c \in DefaultScenarios : InitWith(c)
DefaultNext ==
    \/ \E t \in Threads :
         \/ Call(t) \/ Return(t) \/ GetStep(t) \/ SetStep(t) \/ RemoveStep(t)
    \/ \E e \in Engines : \E i \in Tickers : SweepStep(e, i)
    \/ EnvStep
SpecDefault == DefaultInit /\ [][DefaultNext]_vars

\* h.Set has returned inside the Get / GetWithError of thread t, and what it
\* stored is still in the cache
HasStored(t) ==
    /\ th[t].kind \in Gets /\ th[t].stored
    /\ th[t].pc \in {"unlock", "delMutex", "done"}
    /\ cacheHas(th[t].e, th[t].k)

\* C11: when the dataGetter of a Get or GetWithError returns ExpiresDefault,
\* the entry is stored with the default Expiration D of the engine, and the
\* key is in the expiration cache exactly when D is not ExpiresNever.
C11_DefaultSubstituted ==
    \A t \in Threads :
        HasStored(t) /\ th[t].given = ExpiresDefault =>
            /\ cache[th[t].e][th[t].k].data = th[t].val
            /\ cache[th[t].e][th[t].k].expiration = defaultExpiration[th[t].e]
            /\ th[t].k \in DOMAIN expirationCache[th[t].e]
                 <=> defaultExpiration[th[t].e] # ExpiresNever

\* the value thread t's call wrote is still in the cache
Written(t) == th[t].stored /\ cacheHas(th[t].e, th[t].k)

\* C12: Set without an Expiration stores the entry with the default of the
\* engine; an Expiration that is given (ExpiresNever or a policy, to Set or
\* returned by a dataGetter) is the one stored, whatever the default is.
C12_PolicyStored ==
    \A t \in Threads :
        Written(t) =>
            /\ cache[th[t].e][th[t].k].data = th[t].val
            /\ th[t].kind = "Set" /\ th[t].given = "omitted" =>
                 cache[th[t].e][th[t].k].expiration = defaultExpiration[th[t].e]
            /\ th[t].given \in ExpirationObjects =>
                 cache[th[t].e][th[t].k].expiration = th[t].given

\* on an engine whose default is an idle time, a Set with an Expiration that
\* differs from the default has returned and the entry carries the one given
C12_Witness ==
    \E t \in Threads :
        /\ At(t, "done") /\ th[t].kind = "Set" /\ Written(t)
        /\ defaultExpiration[th[t].e] = "pidle"
        /\ th[t].given \in {ExpiresNever, "pcond"}
        /\ cache[th[t].e][th[t].k].expiration = th[t].given

(***************************************************************************)
(* The sliding idle window (TestHoard_IdleExpiration): one caller on "own" *)
(* with two keys; entries are written with Set, read with Get (without a   *)
(* dataGetter) and re-expired with SetExpires, all with the one Expiration *)
(* object that has an idle time, or with none; the flush goroutine and the *)
(* clock run beside the caller.                                            *)
(***************************************************************************)
IdleScenario ==
    [Scenario({1}, {"Get", "Set", "SetExpires"}, {"own"}, {"pidle"}, {FALSE},
              ExpiresNever, 0, FALSE)
        EXCEPT !.keys = Keys, !.budget = MaxCalls + 1]
IdleInit == InitWith(IdleScenario)
IdleNext ==
    \/ \E t \in Threads :
         \/ Call(t) \/ Return(t)
         \/ Check1(t) \/ FastSet(t) \/ FastIndex(t) \/ GetMutex(t) \/ Lock(t)
         \/ Check2(t) \/ Miss(t) \/ Unlock(t) \/ DelMutex(t)
         \/ SetStep(t) \/ RemoveStep(t) \/ SetExpiresStep(t)
    \/ \E e \in Engines : \E i \in Tickers : SweepStep(e, i)
    \/ AdvanceTime
SpecIdle == IdleInit /\ [][IdleNext]_vars

\* the Expiration of the entry has an idle time
Idles(object) == HasPolicy(object) /\ Expiration[object.expiration].idle # 0

\* the short circuit of a Get on an entry with an idle time writes the time
\* of the read into the cache and then into the expiration cache
IdleReset ==
    \A t \in Threads :
        Steps(t) /\ Idles(th[t].object) =>
            /\ At(t, "fastSet") =>
                 /\ cache'[th[t].e][th[t].k].accessed = now
                 /\ th'[t].pc = "fastIndex"
            /\ At(t, "fastIndex") =>
                 /\ th[t].k \in DOMAIN expirationCache'[th[t].e]
                 /\ expirationCache'[th[t].e][th[t].k].accessed = th[t].object.accessed
                 /\ th'[t].ret = Result(th[t].object.data, FALSE, TRUE)

\* the entry has been read by a Get since it was written
ReadSince(object) == object.accessed > object.created

\* while no call is in progress, a scan of the flush goroutine takes an entry
\* with an idle time that a Get has read as expired only if more than the idle
\* time has passed since that Get
IdleSweep ==
    \A e \in Engines, i \in Tickers :
        /\ Quiet
        /\ i \in DOMAIN sweeper[e] /\ i \in DOMAIN sweeper'[e]
        /\ sweeper[e][i].pc = "wait" /\ sweeper'[e][i].pc = "delete"
        => \A k \in sweeper'[e][i].expirations :
               cacheHas(e, k) /\ Idles(cache[e][k]) /\ ReadSince(cache[e][k])
                   => Stale(cache[e][k])

\* C13: for an entry with an idle time d, a Get no more than d after the
\* previous access returns the stored value and resets the idle clock in the
\* cache and in the expiration cache, so that neither a later Get nor the
\* flush goroutine takes the entry as stale before more than d has passed
\* since that Get; once more than d has passed, a Get takes it as stale.
C13_SlidingWindow ==
    /\ [][IdleReset]_vars
    /\ [][C3_FreshLook]_vars
    /\ [][StaleLook]_vars
    /\ [][IdleSweep]_vars

(***************************************************************************)
(* The flush goroutine stopping and starting (TestHoard_TickerStartStop):  *)
(* one caller on "own", writing ExpiresNever only or ExpiresNever and a    *)
(* duration, or two callers of Set; calls in progress go on, and every     *)
(* flush goroutine keeps getting its ticks.                                *)
(***************************************************************************)
QuiesceScenarios ==
    {Scenario({1}, {"Get", "GetWithError", "Set", "SetExpires"}, {"own"}, P,
              {TRUE}, ExpiresNever, 0, FALSE) :
        P \in {{ExpiresNever}, {ExpiresNever, "pdur"}}}
      \cup {Scenario({1, 2}, {"Set"}, {"own"}, {"pdur"}, {TRUE}, ExpiresNever,
                     0, FALSE)}
QuiesceInit == \E c \in QuiesceScenarios : InitWith(c)
QuiesceNext ==
    \/ \E t \in Threads :
         \/ Call(t) \/ Return(t) \/ GetStep(t) \/ SetStep(t) \/ RemoveStep(t)
         \/ SetExpiresStep(t)
    \/ \E e \in Engines : \E i \in Tickers : SweepStep(e, i)
    \/ AdvanceTime
CallFairness ==
    \A t \in Threads :
        WF_vars(Return(t) \/ GetStep(t) \/ SetStep(t) \/ RemoveStep(t)
                  \/ SetExpiresStep(t))
SpecQuiesce == QuiesceInit /\ [][QuiesceNext]_vars /\ SweepFairness /\ CallFairness

\* the states of the flush manager of engine e
Stopped(e) == ~tickerRunning[e] /\ tickerOn[e] = {} /\ DOMAIN sweeper[e] = {}
Running(e) ==
    tickerRunning[e] /\ ticker[e] \in tickerOn[e] /\ ticker[e] \in DOMAIN sweeper[e]

\* thread t is in a Set, or in the Set at the end of a Get / GetWithError,
\* that writes an entry which can expire
WritesExpiring(t, e) ==
    /\ At(t, "setCache") /\ th[t].e = e
    /\ th[t].pol # ExpiresDefault /\ th[t].pol # ExpiresNever

\* a stopped flush manager makes no step, other than being started by a
\* write of an entry that can expire
NoScanWhileStopped ==
    \A e \in Engines :
        Stopped(e) /\ sweeper'[e] # sweeper[e] =>
            \E t \in Threads :
                /\ Steps(t) /\ At(t, "sfm3") /\ th[t].e = e
                /\ th[t].pol # ExpiresDefault /\ th[t].pol # ExpiresNever

\* C14: an engine on which only ExpiresNever entries are written stays
\* Stopped; once the expiration cache is empty and stays empty the flush
\* manager gets to Stopped and stays there, scanning no more; a write of a new
\* entry that can expire, made while it is Stopped, gets it Running again.
C14_Quiescence ==
    /\ [](cfg.policies = {ExpiresNever} => \A e \in Engines : Stopped(e))
    /\ \A e \in Engines :
         <>[](DOMAIN expirationCache[e] = {}) => <>[]Stopped(e)
    /\ [][NoScanWhileStopped]_vars
    /\ \A e \in Engines, t \in Threads :
         (Stopped(e) /\ WritesExpiring(t, e)) ~> Running(e)

\* ---------------------------------------------------------------------------
\* Re-entrancy: concurrent Gets whose dataGetters call Get on the other key
\* (TestHoard_ReEntry, made concurrent)
ReEntryScenario ==
    [Scenario({1, 2}, {"Get"}, {"own"}, {ExpiresNever}, {TRUE}, ExpiresNever, 0, FALSE)
        EXCEPT !.keys = Keys, !.nest = TRUE]
ReEntryInit == InitWith(ReEntryScenario)
ReEntryNext ==
    \/ \E t \in Threads : Call(t) \/ Return(t) \/ Nest(t)
    \/ \E t \in Callers :
        \/ Check1(t) \/ FastSet(t) \/ GetMutex(t) \/ Lock(t) \/ Check2(t) \/ Miss(t)
        \/ ProducerReturn(t) \/ SetCache(t) \/ Unlock(t) \/ DelMutex(t)
\* every call and every dataGetter goes on running
ReEntryFairness ==
    \A t \in Callers : WF_vars(Return(t) \/ Nest(t) \/ GetStep(t) \/ SetCache(t))
SpecReEntry == ReEntryInit /\ [][ReEntryNext]_vars /\ ReEntryFairness

InCall(t) == ~At(t, "idle") /\ ~At(t, "done")
\* two calls in progress on different keys: their dataGetters nest a Get on
\* each other's key
Crossed ==
    \E t1 \in Threads, t2 \in Threads :
        InCall(t1) /\ InCall(t2) /\ th[t1].k # th[t2].k

HangScenario ==
    [Scenario({1, 2}, AllKinds, {"own"}, {"pcond"}, {TRUE}, ExpiresNever, 0, FALSE)
        EXCEPT !.keys = Keys, !.hang = {1}, !.apart = TRUE]
HangInit == InitWith(HangScenario)
HangNext ==
    \/ \E t \in Threads :
         \/ Call(t) \/ Return(t) \/ GetStep(t) \/ SetStep(t) \/ RemoveStep(t)
         \/ SetExpiresStep(t) \/ Has(t)
    \/ SetCondition
HangFairness ==
    \A t \in Threads :
        WF_vars(Return(t) \/ GetStep(t) \/ SetStep(t) \/ RemoveStep(t)
                  \/ SetExpiresStep(t) \/ Has(t))
SpecHang == HangInit /\ [][HangNext]_vars /\ HangFairness

\* a dataGetter of thread t is running and will never return
Hung(t) == At(t, "producing") /\ th[t].k \in cfg.hang

\* C16: while a dataGetter for one key never returns, every Get, GetWithError,
\* Set, Has, Remove and SetExpires on a different key still completes
C16_KeyIndependence ==
    \A t \in Threads :
        ((\E u \in Threads : Hung(u)) /\ InCall(t) /\ th[t].k \notin cfg.hang)
            ~> At(t, "done")

\* a Get on key 2 that went through the key's mutex has completed with a value
\* while the dataGetter of key 1 hangs
C16_Witness ==
    /\ Hung(1)
    /\ At(2, "done") /\ th[2].kind = "Get" /\ th[2].k = 2 /\ th[2].called > 0
    /\ th[2].ret.ok

\* ---------------------------------------------------------------------------
\* the sweeper's state of all engines: whether it runs, its tickers, its
\* goroutines
sweeperState == <<tickerRunning, ticker, tickerOn, sweeper>>

\* thread t is in SetExpires and about to look up a key that is not stored
SetExpiresAbsent(t) ==
    At(t, "sxGet") /\ ~cacheHas(th[t].e, th[t].k)

\* C17: SetExpires on a key that is absent from the store returns false and
\* leaves the store, the index and the sweeper's state unchanged
C17_SetExpiresAbsent ==
    [][\A t \in Threads :
         (SetExpiresAbsent(t) /\ th'[t] # th[t]) =>
             /\ th'[t].pc = "done" /\ ~th'[t].ret.ok
             /\ UNCHANGED <<cache, expirationCache, absolute, sweeperState>>]_vars

\* a SetExpires with an expiring policy has returned false for a key that the
\* call before it removed
C17_Witness ==
    \E t \in Threads :
        /\ At(t, "done") /\ th[t].kind = "SetExpires" /\ ~th[t].ret.ok
        /\ th[t].given # ExpiresNever
        /\ ~cacheHas(th[t].e, th[t].k)
        /\ th[t].k \notin DOMAIN expirationCache[th[t].e]
        /\ Len(th[t].prev) > 0 /\ th[t].prev[Len(th[t].prev)].kind = "Remove"

\* ---------------------------------------------------------------------------
\* thread t is in a Get or GetWithError without a dataGetter whose key is not
\* stored
AbsentNoGetter(t) ==
    /\ InCall(t) /\ th[t].kind \in Gets /\ ~th[t].getter
    /\ IF At(t, "check1") THEN ~cacheHas(th[t].e, th[t].k) ELSE th[t].first = "miss"

\* C18: Get without a dataGetter on an absent key returns nil, GetWithError
\* returns nil and no error; none of the call's steps changes the store, the
\* index or the sweeper's state, and the key's mutex is unlocked and dropped
C18_AbsentNoGetter ==
    [][\A t \in Threads :
         (AbsentNoGetter(t) /\ th'[t] # th[t]) =>
             /\ UNCHANGED <<cache, expirationCache, absolute, sweeperState>>
             /\ th'[t].pc = "done" =>
                   /\ th'[t].ret = NoResult
                   /\ th'[t].mu \notin locked'
                   /\ th'[t].k \notin DOMAIN keyDeadbolts'[th'[t].e]]_vars

\* a GetWithError without a dataGetter has gone through both looks and the
\* key's mutex and returned nil without an error
C18_Witness ==
    \E t \in Threads :
        /\ At(t, "done") /\ th[t].kind = "GetWithError" /\ ~th[t].getter
        /\ th[t].first = "miss" /\ th[t].second = "miss" /\ th[t].mu # 0
        /\ th[t].ret = NoResult /\ locked = {}

\* ---------------------------------------------------------------------------
\* no call is in progress and no sweep is between its scan and its end
NothingInFlight ==
    /\ \A t \in Callers : At(t, "idle") \/ At(t, "done")
    /\ \A e \in Engines : \A i \in DOMAIN sweeper[e] : sweeper[e][i].pc = "wait"

\* C19: when no operation and no sweep is in progress, every key of the index
\* is in the store and every stored entry whose policy is not Never is in the
\* index
C19_StoreIndexConsistent ==
    NothingInFlight =>
        \A e \in Engines :
            /\ DOMAIN expirationCache[e] \subseteq DOMAIN cache[e]
            /\ \A k \in DOMAIN cache[e] :
                   cache[e][k].expiration # ExpiresNever
                       => k \in DOMAIN expirationCache[e]

\* C20: after any sequence of completed Set, Get, GetWithError, SetExpires and
\* Remove calls, no key whose stored entry has the Never policy is in the index
C20_NeverNotIndexed ==
    NothingInFlight =>
        \A e \in Engines : \A k \in DOMAIN cache[e] :
            cache[e][k].expiration = ExpiresNever
                => k \notin DOMAIN expirationCache[e]

\* ---------------------------------------------------------------------------
\* C21: with no call and no sweep in progress, an engine whose index is not
\* empty has its flush manager Running, whatever the interleaving of the
\* writes (Set, the store of a Get / GetWithError, SetExpires) and the ticks
C21_IndexedIsSwept ==
    NothingInFlight =>
        \A e \in Engines : DOMAIN expirationCache[e] # {} => Running(e)

\* ---------------------------------------------------------------------------
\* the flush goroutines of engine e that range over a ticker which is not
\* stopped, or are in the middle of a tick
ActiveSweepers(e) == DOMAIN sweeper[e]

\* C22: an engine never has more than one active flush goroutine, whatever
\* the interleaving of the writes and of the goroutine's stops and restarts
C22_OneSweeper == \A e \in Engines : Cardinality(ActiveSweepers(e)) <= 1

\* ---------------------------------------------------------------------------
\* thread t holds the mutex it got for its key, or waits for it
HoldsOrWaits(t) ==
    th[t].mu # 0 /\ ~At(t, "idle") /\ ~At(t, "done") /\ ~At(t, "delMutex")

\* a key's mutex leaves the table only when no other caller holds it or waits
\* for it
DroppedUncontended ==
    \A e \in Engines : \A k \in DOMAIN keyDeadbolts[e] :
        k \notin DOMAIN keyDeadbolts'[e] =>
            ~\E u \in Callers : HoldsOrWaits(u) /\ th[u].mu = keyDeadbolts[e][k]

\* the callers that are in the slow path for one key at one time have one mutex
OneMutexPerKey ==
    \A t \in Callers, u \in Callers :
        /\ HoldsOrWaits(t) /\ HoldsOrWaits(u)
        /\ th[t].e = th[u].e /\ th[t].k = th[u].k
        => th[t].mu = th[u].mu

\* C23: a key's mutex is dropped from the table only when no other caller
\* holds or waits on it, so the callers in the slow path for a key at the same
\* time all go through the same mutex
C23_MutexKept == [][DroppedUncontended]_vars /\ []OneMutexPerKey

\* ---------------------------------------------------------------------------
\* The threads call Get and GetWithError on one key, with and without a
\* dataGetter, the dataGetter of GetWithError succeeding or failing
LockScenario ==
    Scenario(Threads, Gets, {"own"}, {ExpiresNever}, BOOLEAN, ExpiresNever, 0, FALSE)
LockInit == InitWith(LockScenario)
LockNext ==
    \E t \in Threads :
        \/ Call(t) \/ Return(t) \/ Check1(t) \/ FastSet(t) \/ GetMutex(t) \/ Lock(t)
        \/ Check2(t) \/ Miss(t) \/ ProducerReturn(t) \/ SetCache(t) \/ Unlock(t)
        \/ DelMutex(t)
SpecLock == LockInit /\ [][LockNext]_vars

\* no Get and no GetWithError is in progress
NoGetInProgress == \A t \in Callers : ~(InCall(t) /\ th[t].kind \in Gets)

\* C24: every exit of Get and GetWithError unlocks the key's mutex: whenever
\* no Get or GetWithError is in progress no key mutex is locked and the map of
\* mutexes is empty
C24_LocksReleased ==
    NoGetInProgress =>
        /\ locked = {}
        /\ \A e \in Engines : DOMAIN keyDeadbolts[e] = {}

\* a thread has returned from the slow path by the exit named
SlowExit(how) ==
    \E t \in Threads :
        /\ At(t, "done") /\ th[t].kind \in Gets /\ th[t].mu # 0
        /\ th[t].first = "miss"
        /\ CASE how = "found" -> th[t].second = "fresh"
             [] how = "value" -> th[t].second = "miss" /\ th[t].getter /\ ~th[t].err
             [] how = "error" -> th[t].second = "miss" /\ th[t].getter /\ th[t].err

\* three calls have returned from the slow path: one with the value it found
\* on its second look, one with its dataGetter's value, one with its
\* dataGetter's error
C24_Witness ==
    NoGetInProgress /\ SlowExit("found") /\ SlowExit("value") /\ SlowExit("error")

\* ---------------------------------------------------------------------------
\* the keys of the index of engine e that are stale by the full evaluation of
\* their Expiration on their own times
FullyStale(e) ==
    {k \in DOMAIN expirationCache[e] :
        LET c == expirationCache[e][k]
        IN  /\ c.expiration # ExpiresDefault
            /\ IsExpired(c.expiration, c.accessed, c.created, now, condition)}

\* the keys of the index of engine e that the flush goroutine takes for stale
AbsolutelyStale(e) ==
    {k \in DOMAIN expirationCache[e] :
        LET c == expirationCache[e][k]
        IN  /\ c.expiration # ExpiresDefault
            /\ isExpiredAbsolute(c.expiration, absolute[c.expiration], now, condition)}

\* a scan collects exactly the keys that are stale by the full evaluation
ScanCollectsStale ==
    \A e \in Engines : \A i \in DOMAIN sweeper[e] :
        /\ sweeper[e][i].pc = "wait"
        /\ i \in DOMAIN sweeper'[e] /\ sweeper'[e][i].pc = "delete"
        => sweeper'[e][i].expirations = FullyStale(e)

\* C25: on each tick the flush goroutine evicts exactly the indexed keys whose
\* Expiration is stale on the entry's own created and accessed times: its
\* test on the cached absolute time agrees with the full evaluation for every
\* indexed entry, also when entries share one Expiration object
C25_SweepAgrees ==
    /\ [](\A e \in Engines : AbsolutelyStale(e) = FullyStale(e))
    /\ [][ScanCollectsStale]_vars

\* ---------------------------------------------------------------------------
\* A Set of an entry that expires after a second, written again while the
\* clock runs and the flush goroutine ticks
RaceScenario ==
    [Scenario({1}, {"Set"}, {"own"}, {"pdur"}, {FALSE}, "pdur", 0, FALSE)
        EXCEPT !.budget = MaxCalls - 1]
RaceInit == InitWith(RaceScenario)
RaceNext ==
    \/ \E t \in Threads : Call(t) \/ Return(t) \/ SetStep(t)
    \/ \E e \in Engines : \E i \in Tickers : SweepStep(e, i)
    \/ AdvanceTime
SpecRace == RaceInit /\ [][RaceNext]_vars

\* the deletion of a sweep removes from the store only the entries its scan
\* judged stale: those written at the time, and with the Expiration, of the
\* expirationContainer the scan looked at
DeletesJudged ==
    \A e \in Engines : \A i \in DOMAIN sweeper[e] :
        sweeper[e][i].pc = "delete" /\ cache'[e] # cache[e] =>
            \A k \in sweeper[e][i].expirations \cap DOMAIN cache[e] :
                /\ cache[e][k].created = sweeper[e][i].judged[k].created
                /\ cache[e][k].expiration = sweeper[e][i].judged[k].expiration

\* C26: the flush goroutine removes a key only if the entry stored under it
\* when it is removed is the one the scan judged stale; an entry written by
\* Set between the scan and the deletion is not removed by that sweep
C26_DeletesJudged == [][DeletesJudged]_vars

\* ---------------------------------------------------------------------------
\* Two threads: Set, Remove and Get without a dataGetter on one key, while the
\* clock runs and the flush goroutine ticks
UndoScenario ==
    Scenario({1, 2}, {"Set", "Get", "Remove"}, {"own"}, {"pdur"}, {FALSE},
             ExpiresNever, 1, FALSE)
UndoInit == InitWith(UndoScenario)
UndoNext ==
    \/ \E t \in Threads :
         \/ Call(t) \/ Return(t) \/ Check1(t) \/ FastSet(t) \/ FastIndex(t)
         \/ GetMutex(t) \/ Lock(t) \/ Check2(t) \/ Miss(t) \/ Unlock(t) \/ DelMutex(t)
         \/ SetStep(t) \/ RemoveStep(t)
    \/ \E e \in Engines : \E i \in Tickers : SweepStep(e, i)
    \/ AdvanceTime
SpecUndo == UndoInit /\ [][UndoNext]_vars

\* thread a has returned from the call of the second kind on key k of "own",
\* made after its call of the first kind on k had returned, and thread b has
\* returned from its only call, a Get on k; no other call has been made
ThenWithGet(a, b, first, second, k) ==
    /\ a # b
    /\ At(a, "done") /\ th[a].kind = second /\ th[a].e = "own" /\ th[a].k = k
    /\ Len(th[a].prev) = 1 /\ th[a].prev[1].kind = first
    /\ th[a].prev[1].e = "own" /\ th[a].prev[1].k = k
    /\ At(b, "done") /\ th[b].kind = "Get" /\ th[b].e = "own" /\ th[b].k = k
    /\ th[b].prev = <<>>
    /\ calls = 3
    /\ \A t \in Callers \ {a, b} : At(t, "idle") /\ th[t].prev = <<>>

\* C27: a Remove that has completed is not undone by the write-back of a Get
\* running at the same time: with no Set and no dataGetter's store after it,
\* once every call has returned the key is in neither the store nor the index
C27_RemoveNotUndone ==
    \A a \in Threads, b \in Threads, k \in Keys :
        ThenWithGet(a, b, "Set", "Remove", k) =>
            ~cacheHas("own", k) /\ k \notin DOMAIN expirationCache["own"]

\* ---------------------------------------------------------------------------
\* Two threads: Set, SetExpires and Get without a dataGetter on one key, while
\* the clock runs and the flush goroutine ticks
LostScenario ==
    Scenario({1, 2}, {"Set", "Get", "SetExpires"}, {"own"}, {ExpiresNever, "pdur"},
             {FALSE}, ExpiresNever, 1, FALSE)
LostInit == InitWith(LostScenario)
LostNext ==
    \/ \E t \in Threads :
         \/ Call(t) \/ Return(t) \/ Check1(t) \/ FastSet(t) \/ FastIndex(t)
         \/ GetMutex(t) \/ Lock(t) \/ Check2(t) \/ Miss(t) \/ Unlock(t) \/ DelMutex(t)
         \/ SetStep(t) \/ RemoveStep(t) \/ SetExpiresStep(t)
    \/ \E e \in Engines : \E i \in Tickers : SweepStep(e, i)
    \/ AdvanceTime
SpecLost == LostInit /\ [][LostNext]_vars

\* C28: a Set or SetExpires that has completed is not lost to the write-back
\* of a Get on the same key that read the entry before it: once every call has
\* returned, the entry, if it is still stored, has the value of the Set,
\* respectively the Expiration of the SetExpires
C28_WriteNotLost ==
    \A a \in Threads, b \in Threads, k \in Keys :
        /\ ThenWithGet(a, b, "Set", "Set", k) /\ cacheHas("own", k)
             => /\ cache["own"][k].data = th[a].val
                /\ cache["own"][k].expiration = th[a].pol
        /\ ThenWithGet(a, b, "Set", "SetExpires", k) /\ cacheHas("own", k)
             /\ th[a].ret.ok
             => cache["own"][k].expiration = th[a].pol

\* ---------------------------------------------------------------------------
\* Expiration.IsExpired by itself: called, as the clock runs, on an Expiration
\* with any of idle, duration, date and condition set, for a container
\* created and accessed at any times
MaxDuration == 2
Fields ==
    [idle : 0..MaxDuration, duration : 0..MaxDuration, date : 0..MaxTime,
     condition : BOOLEAN]
EvalScenarios ==
    {[Scenario({1}, {"IsExpired"}, {"own"}, {ExpiresNever}, {FALSE}, ExpiresNever,
               0, FALSE)
        EXCEPT !.input = Input(x, lastAccess, created, returns)] :
        x \in Fields, lastAccess \in Times, created \in Times, returns \in BOOLEAN}
EvalInit == \E c \in {d \in EvalScenarios : d.input.created <= d.input.lastAccess} :
                InitWith(c)

\* object.expiration.IsExpired(object.accessed, object.created)
Evaluate(t) ==
    /\ At(t, "idle")
    /\ t \in cfg.threads
    /\ "IsExpired" \in cfg.kinds
    /\ now >= cfg.input.lastAccess
    /\ Step(t, [Idle EXCEPT
                   !.pc = "done", !.kind = "IsExpired",
                   !.ret = Result(0, FALSE,
                                  IsExpiredFields(cfg.input.x, cfg.input.lastAccess,
                                                  cfg.input.created, now,
                                                  cfg.input.returns))])
    /\ UNCHANGED <<now, condition, shared, defaultExpiration, calls, invoked, cfg>>

EvalNext == (\E t \in Threads : Evaluate(t) \/ Return(t)) \/ AdvanceTime
SpecEval == EvalInit /\ [][EvalNext]_vars

\* the sub-conditions that are set in the Expiration with fields x
SetIn(x) ==
    {c \in {"duration", "idle", "date", "condition"} :
        IF c = "condition" THEN x.condition ELSE x[c] # 0}

\* whether sub-condition c holds for the input at the current time
Holds(c, in) ==
    CASE c = "duration" -> now - in.created > in.x.duration
      [] c = "idle" -> now - in.lastAccess > in.x.idle
      [] c = "date" -> now > in.x.date
      [] c = "condition" -> in.returns

\* C29: IsExpired is the logical or of the sub-conditions that are set: time
\* since creation over the duration, time since the last access over the
\* idle duration, the date passed, the condition returning true; those not
\* set do not count, and with none set the answer is no
C29_LogicalOr ==
    [][\A t \in Threads :
         At(t, "idle") /\ th'[t].kind = "IsExpired" =>
             (th'[t].ret.ok <=> \E c \in SetIn(cfg.input.x) : Holds(c, cfg.input))]_vars

\* IsExpired has said yes for an Expiration with a duration and a date of
\* which only the duration can have run out
C29_Witness ==
    \E t \in Threads :
        /\ At(t, "done") /\ th[t].kind = "IsExpired" /\ th[t].ret.ok
        /\ cfg.input.x.duration # 0 /\ cfg.input.x.date = MaxTime
        /\ ~cfg.input.x.condition /\ cfg.input.x.idle = 0

\* ---------------------------------------------------------------------------
\* One caller: Set and SetExpires on one key, with ExpiresDefault,
\* ExpiresNever or a duration, on an engine made with ExpiresNever or with an
\* idle time as its default, while the clock runs and the flush goroutine ticks
PolicyScenarios ==
    {Scenario({1}, {"Set", "SetExpires"}, {"own"},
              {ExpiresDefault, ExpiresNever, "pdur"}, {FALSE}, D, 0, FALSE) :
        D \in {ExpiresNever, "pidle"}}
PolicyInit == \E c \in PolicyScenarios : InitWith(c)
PolicyNext ==
    \/ \E t \in Threads : Call(t) \/ Return(t) \/ SetStep(t) \/ SetExpiresStep(t)
    \/ \E e \in Engines : \E i \in Tickers : SweepStep(e, i)
    \/ AdvanceTime
SpecPolicy == PolicyInit /\ [][PolicyNext]_vars

\* SetExpires of thread t finds its key: what it is going to store is the
\* entry it found, with the Expiration given (the default for ExpiresDefault)
\* in place of the old one
SetExpiresReads(t) ==
    At(t, "sxGet") /\ cacheHas(th[t].e, th[t].k) /\ th'[t] # th[t]
        => th'[t].object = [cache[th[t].e][th[t].k] EXCEPT
                               !.expiration = Substitute(th[t].e, th[t].given)]

\* SetExpires of thread t stores that entry under its key and nothing else
SetExpiresStores(t) ==
    At(t, "sxSet") /\ th'[t] # th[t]
        => cache' = [cache EXCEPT ![th[t].e] = Put(@, th[t].k, th[t].object)]

\* SetExpires of thread t returns: it returns true, and the key is in the
\* index, with the new Expiration, exactly if that is not ExpiresNever
SetExpiresReturns(t) ==
    At(t, "sxIndex") /\ th'[t] # th[t]
        => LET e == th[t].e
               k == th[t].k
           IN  /\ th'[t].pc = "done" /\ th'[t].ret.ok
               /\ cache' = cache
               /\ IF th[t].object.expiration = ExpiresNever
                  THEN k \notin DOMAIN expirationCache'[e]
                  ELSE /\ k \in DOMAIN expirationCache'[e]
                       /\ expirationCache'[e][k].expiration = th[t].object.expiration

\* C30: SetExpires on a key that is stored returns true, replaces the
\* Expiration of the entry (by the default of the engine if ExpiresDefault is
\* given) and leaves its value and its created and accessed times as they
\* were; after it the key is out of the index if the new Expiration is
\* ExpiresNever and in it with the new Expiration otherwise
C30_SetExpiresPresent ==
    [][\A t \in Threads :
         SetExpiresReads(t) /\ SetExpiresStores(t) /\ SetExpiresReturns(t)]_vars

\* a SetExpires with ExpiresDefault, on an engine whose default is an idle
\* time, has returned true for an entry made earlier with ExpiresNever: the
\* entry has its value and times and the default as its Expiration, and is in
\* the index
C30_Witness ==
    \E t \in Threads :
        LET e == th[t].e
            k == th[t].k
        IN  /\ At(t, "done") /\ th[t].kind = "SetExpires" /\ th[t].ret.ok
            /\ th[t].given = ExpiresDefault /\ defaultExpiration[e] = "pidle"
            /\ cacheHas(e, k) /\ cache[e][k].expiration = "pidle"
            /\ cache[e][k].created < now /\ cache[e][k].data # 0
            /\ k \in DOMAIN expirationCache[e]
            /\ expirationCache[e][k].expiration = "pidle"

\* ---------------------------------------------------------------------------
\* C31: ExpiresDefault is never the Expiration of a stored entry, whatever
\* Set (with none, or any, given), the store of a Get / GetWithError or
\* SetExpires wrote it
C31_DefaultNotStored ==
    \A e \in Engines : \A k \in DOMAIN cache[e] :
        cache[e][k].expiration # ExpiresDefault

\* ---------------------------------------------------------------------------
\* One caller: Set, and Get with a dataGetter, with ExpiresNever, a duration
\* or the Expiration Expires() returns with nothing set in it, while the
\* clock runs and the flush goroutine ticks
EmptyScenario ==
    Scenario({1}, {"Set", "Get"}, {"own"}, {ExpiresNever, "pdur", "pempty"}, {TRUE},
             ExpiresNever, 0, FALSE)
EmptyInit == InitWith(EmptyScenario)
EmptyNext ==
    \/ \E t \in Threads :
         Call(t) \/ Return(t) \/ GetStep(t) \/ SetStep(t) \/ RemoveStep(t)
    \/ \E e \in Engines : \E i \in Tickers : SweepStep(e, i)
    \/ AdvanceTime
SpecEmpty == EmptyInit /\ [][EmptyNext]_vars

\* whether any of the four sub-conditions is set in the Expiration p points to
CanExpire(p) == p # ExpiresDefault /\ SetIn(Expiration[p]) # {}

\* C32: an entry that is written goes on to the index and to the start of the
\* flush manager exactly if at least one sub-condition of its Expiration is
\* set; an Expiration with none set is treated like ExpiresNever
C32_IndexedIfCanExpire ==
    [][\A t \in Threads :
         At(t, "setCache") /\ th'[t] # th[t] =>
             (th'[t].pc = "setIndex" <=> CanExpire(th[t].pol))]_vars

\* ---------------------------------------------------------------------------
\* thread t, in Get or GetWithError, takes a step in which it looks its key up
\* under the key's mutex and finds an entry whose value it is going to return
FoundOnRecheck(t) ==
    At(t, "check2") /\ th'[t] # th[t] /\ th'[t].second = "fresh"

\* thread t takes the step of the hit path that stores the entry it found
WritesBack(t) == At(t, "fastSet") /\ th'[t] # th[t]

\* the entry of the key of thread t is stored with the current time as its
\* time of last access
AccessedNow(t) ==
    /\ th[t].k \in DOMAIN cache'[th[t].e]
    /\ cache'[th[t].e][th[t].k].accessed = now

\* C33: a Get or GetWithError that returns the value of an entry it found
\* sets the time of last access of the entry to the time of the read, on the
\* hit path and when it finds the entry on its second look, under the key's
\* mutex (the last thing the call does with the entry)
C33_AccessRecorded ==
    [][\A t \in Threads : WritesBack(t) \/ FoundOnRecheck(t) => AccessedNow(t)]_vars

\* ---------------------------------------------------------------------------
\* a step of thread t that writes a new entry: the store of Set, or of the
\* value of a dataGetter
WritesEntry(t) == At(t, "setCache") /\ th'[t] # th[t]

\* a new entry is made at the current time
CreatedAtWrite ==
    \A t \in Threads :
        WritesEntry(t) => cache'[th[t].e][th[t].k].created = now

\* no other step of a call changes the time an entry that stays stored was
\* made at
CreatedKept ==
    \A t \in Threads :
        Steps(t) /\ ~WritesEntry(t) =>
            \A e \in Engines : \A k \in DOMAIN cache[e] \cap DOMAIN cache'[e] :
                cache'[e][k].created = cache[e][k].created

\* the write-back of a hit changes nothing of a stored entry but its time of
\* last access
ReadKeepsRest ==
    \A t \in Threads :
        WritesBack(t) /\ cacheHas(th[t].e, th[t].k) =>
            cache'[th[t].e][th[t].k] = [cache[th[t].e][th[t].k] EXCEPT !.accessed = now]

\* C34: the time an entry was made at is set when Set or the store of a
\* dataGetter's value writes it and is not changed by Get, GetWithError, Has
\* or SetExpires; a read that finds the entry changes only its time of last
\* access and leaves its value, the time it was made at and its Expiration
C34_CreatedOnce ==
    [][CreatedAtWrite /\ CreatedKept /\ ReadKeepsRest]_vars

\* a Get has returned the value of an entry made earlier: the entry has the
\* current time as its time of last access and the earlier time as the time
\* it was made at
C34_Witness ==
    \E t \in Threads :
        /\ At(t, "done") /\ th[t].kind = "Get" /\ th[t].first = "fresh" /\ th[t].ret.ok
        /\ cacheHas(th[t].e, th[t].k)
        /\ cache[th[t].e][th[t].k].accessed = now
        /\ cache[th[t].e][th[t].k].created < now
        /\ cache[th[t].e][th[t].k].data = th[t].ret.data

\* ---------------------------------------------------------------------------
\* hoard.go 321-331: what Get does with its dataGetter, which returns a value
\* and an Expiration and no error: the value is handed to h.Set
GetProducerReturn(t) ==
    /\ At(t, "producing")
    /\ \E p \in cfg.policies :
         Step(t, [th[t] EXCEPT !.pc = "setCache", !.given = p,
                              !.pol = Substitute(th[t].e, p),
                              !.ret = Result(th[t].val, FALSE, TRUE)])
    /\ UNCHANGED <<now, condition, shared, defaultExpiration, calls, invoked, cfg>>

\* hoard.go 248-339: a step of Get, whatever the kind of the call in progress
GetProtocol(t) ==
    \/ Check1(t) \/ FastSet(t) \/ FastIndex(t) \/ GetMutex(t) \/ Lock(t)
    \/ Check2(t) \/ Miss(t) \/ GetProducerReturn(t) \/ Unlock(t) \/ DelMutex(t)
    \/ SetStep(t) \/ RemoveStep(t)

\* the dataGetter of the call of thread t has not returned an error
NoError(t) == ~th[t].err /\ ~th'[t].err

NestOwn(t) ==
    /\ At(t, "producing")
    /\ Nests(t)
    /\ At(Frame(t), "idle")
    /\ Step(Frame(t), [Idle EXCEPT !.pc = Entry("Get"), !.kind = "Get",
                                   !.e = th[t].e, !.k = th[t].k, !.getter = TRUE,
                                   !.val = th[t].val])
    /\ UNCHANGED <<now, condition, shared, defaultExpiration, calls, invoked, cfg>>

(***************************************************************************)
(* Re-entry on the same key: two threads call Get, GetWithError and Set on *)
(* the one key of "own"; every dataGetter of a thread calls Get on the key *)
(* it is called for.                                                       *)
(***************************************************************************)
OwnScenario ==
    [Scenario({1, 2}, {"Get", "GetWithError", "Set"}, {"own"}, {ExpiresNever}, {TRUE},
              ExpiresNever, 0, FALSE)
        EXCEPT !.nest = TRUE, !.budget = MaxCalls + 1]
OwnInit == InitWith(OwnScenario)
OwnNext ==
    \/ \E t \in Threads : Call(t) \/ Return(t) \/ NestOwn(t)
    \/ \E t \in Callers :
        \/ Check1(t) \/ FastSet(t) \/ GetMutex(t) \/ Lock(t) \/ Check2(t) \/ Miss(t)
        \/ ProducerReturn(t) \/ SetCache(t) \/ Unlock(t) \/ DelMutex(t)
SpecOwn == OwnInit /\ [][OwnNext]_vars

\* the dataGetter of thread t has called Get on the key it is called for
OwnNest(t) ==
    /\ At(t, "producing") /\ ~At(Frame(t), "idle")
    /\ th[Frame(t)].e = th[t].e /\ th[Frame(t)].k = th[t].k

\* the nested Get of thread t has not returned
NestedHangs(t) == OwnNest(t) => ~At(Frame(t), "done")

Alone == \A t \in Threads, u \in Threads : t # u => ~(InCall(t) /\ InCall(u))

KeysScenario ==
    [Scenario({1}, {"Set", "Remove", "Has"}, {"own"}, {ExpiresNever, "pdur"}, {FALSE},
              ExpiresNever, 1, FALSE)
        EXCEPT !.keys = Keys, !.budget = MaxCalls + 1]
KeysInit == InitWith(KeysScenario)
KeysNext ==
    \/ \E t \in Threads :
         Call(t) \/ Return(t) \/ SetStep(t) \/ RemoveStep(t) \/ Has(t)
    \/ \E e \in Engines : \E i \in Tickers : SweepStep(e, i)
    \/ AdvanceTime
SpecKeys == KeysInit /\ [][KeysNext]_vars

\* thread t takes a step of a call of h.Remove
Removes(t) == th[t].kind = "Remove" /\ Steps(t)

\* the entries and index records of every key but k of engine e, and all
\* those of the other engines, are after the step what they were before
OthersKept(e, k) ==
    /\ \A f \in Engines \ {e} :
         cache'[f] = cache[f] /\ expirationCache'[f] = expirationCache[f]
    /\ Delete(cache'[e], {k}) = Delete(cache[e], {k})
    /\ Delete(expirationCache'[e], {k}) = Delete(expirationCache[e], {k})

\* C37: when Remove(k) returns k is in neither the cache nor the index of
\* expiring keys, whatever was there before; a Remove of a key that is in
\* neither changes nothing; and no step of Remove changes the entry or the
\* index record of another key
C37_RemoveEffect ==
    [][\A t \in Threads :
         Removes(t) =>
            /\ OthersKept(th[t].e, th[t].k)
            /\ th'[t].pc = "done" =>
                  /\ th[t].k \notin DOMAIN cache'[th[t].e]
                  /\ th[t].k \notin DOMAIN expirationCache'[th[t].e]
            /\ (/\ th[t].k \notin DOMAIN cache[th[t].e]
                /\ th[t].k \notin DOMAIN expirationCache[th[t].e]) => shared' = shared]_vars

\* Remove has returned for a key that was set with a duration just before,
\* and the other key is still stored with its index record
C37_Witness ==
    \E t \in Threads :
        /\ At(t, "done") /\ th[t].kind = "Remove"
        /\ Len(th[t].prev) = 1 /\ th[t].prev[1].kind = "Set" /\ th[t].prev[1].k = th[t].k
        /\ \E j \in Keys \ {th[t].k} :
             /\ j \in DOMAIN cache[th[t].e] /\ j \in DOMAIN expirationCache[th[t].e]
        /\ th[t].k \notin DOMAIN cache[th[t].e]

\* C38: Has(k) returns true exactly when k is in the cache, expired or not,
\* and changes nothing: not the entry or its time of last access, not the
\* index of expiring keys, not the flush goroutine
C38_HasOnlyLooks ==
    [][\A t \in Threads :
         At(t, "has") /\ th'[t] # th[t] =>
            /\ th'[t].ret.ok = (th[t].k \in DOMAIN cache[th[t].e])
            /\ shared' = shared]_vars

\* Has has returned true for an entry that has expired and is still stored
C38_Witness ==
    \E t \in Threads :
        /\ At(t, "done") /\ th[t].kind = "Has" /\ th[t].ret.ok
        /\ cacheHas(th[t].e, th[t].k)
        /\ Stale(cacheGet(th[t].e, th[t].k))
        /\ th[t].k \in DOMAIN expirationCache[th[t].e]

(***************************************************************************)
(* The builder methods of Expiration, expiration.go 135-219.  A duration   *)
(* is a number of seconds; a condition is given (TRUE) or nil (FALSE).     *)
(***************************************************************************)
\* time.Second, time.Minute, time.Hour
Unit == [Second |-> 1, Minute |-> 60, Hour |-> 3600]

after(duration, multiplier) == duration * multiplier

AfterSeconds(e, seconds) == [e EXCEPT !.duration = after(seconds, Unit.Second)]
AfterMinutes(e, minutes) == [e EXCEPT !.duration = after(minutes, Unit.Minute)]
AfterHours(e, hours) == [e EXCEPT !.duration = after(hours, Unit.Hour)]
AfterDays(e, days) == [e EXCEPT !.duration = after(days, Unit.Hour * 24)]
AfterDuration(e, duration) == [e EXCEPT !.duration = duration]
AfterSecondsIdle(e, seconds) == [e EXCEPT !.idle = after(seconds, Unit.Second)]
AfterMinutesIdle(e, minutes) == [e EXCEPT !.idle = after(minutes, Unit.Minute)]
AfterHoursIdle(e, hours) == [e EXCEPT !.idle = after(hours, Unit.Hour)]
AfterDaysIdle(e, days) == [e EXCEPT !.idle = after(days, Unit.Hour * 24)]
AfterDurationIdle(e, duration) == [e EXCEPT !.idle = duration]
\* (faulty variant) OnDate makes an Expiration of the date alone
OnDateOnly(e, date) == [Expiration[ExpiresNever] EXCEPT !.date = date]
OnDate(e, date) == [e EXCEPT !.date = date]
OnCondition(e, cond) == [e EXCEPT !.condition = cond]

BuilderMethods ==
    {"AfterSeconds", "AfterMinutes", "AfterHours", "AfterDays", "AfterDuration",
     "AfterSecondsIdle", "AfterMinutesIdle", "AfterHoursIdle", "AfterDaysIdle",
     "AfterDurationIdle", "OnDate", "OnCondition"}

\* what a call of e.<method>(n) leaves in e (for OnCondition, n > 0 stands
\* for a function and 0 for nil)
Built(method, e, n) ==
    CASE method = "AfterSeconds" -> AfterSeconds(e, n)
      [] method = "AfterMinutes" -> AfterMinutes(e, n)
      [] method = "AfterHours" -> AfterHours(e, n)
      [] method = "AfterDays" -> AfterDays(e, n)
      [] method = "AfterDuration" -> AfterDuration(e, n)
      [] method = "AfterSecondsIdle" -> AfterSecondsIdle(e, n)
      [] method = "AfterMinutesIdle" -> AfterMinutesIdle(e, n)
      [] method = "AfterHoursIdle" -> AfterHoursIdle(e, n)
      [] method = "AfterDaysIdle" -> AfterDaysIdle(e, n)
      [] method = "AfterDurationIdle" -> AfterDurationIdle(e, n)
      [] method = "OnDate" -> OnDate(e, n)
      [] method = "OnCondition" -> OnCondition(e, n > 0)

\* expiration.go 43-45: Expires() returns a new, empty Expiration
Expires(t) ==
    /\ At(t, "idle")
    /\ t \in cfg.threads
    /\ "Expires" \in cfg.kinds
    /\ calls < cfg.budget
    /\ calls' = calls + 1
    /\ Step(t, [Idle EXCEPT !.pc = "done", !.kind = "Expires",
                            !.ret = Result([idle |-> 0, duration |-> 0, date |-> 0,
                                            condition |-> FALSE], FALSE, TRUE)])
    /\ UNCHANGED <<now, condition, shared, defaultExpiration, invoked, cfg>>

\* a builder method is called on the Expiration the call before returned, and
\* returns it for the next call of the chain
Build(t) ==
    /\ At(t, "done")
    /\ th[t].kind \in {"Expires"} \cup BuilderMethods
    /\ calls < cfg.budget
    /\ calls' = calls + 1
    /\ \E method \in BuilderMethods, n \in 0..MaxDuration :
         Step(t, [th[t] EXCEPT !.kind = method, !.val = n,
                              !.ret = Result(Built(method, th[t].ret.data, n),
                                             FALSE, TRUE)])
    /\ UNCHANGED <<now, condition, shared, defaultExpiration, invoked, cfg>>

BuildScenario ==
    [Scenario({1}, {"Expires"}, {"own"}, {ExpiresNever}, {FALSE}, ExpiresNever, 0, FALSE)
        EXCEPT !.budget = MaxCalls + 2]
BuildInit == InitWith(BuildScenario)
BuildNext == \E t \in Threads : Expires(t) \/ Build(t)
SpecBuild == BuildInit /\ [][BuildNext]_vars

\* the sub-condition a builder method is for, and the number of seconds its
\* argument counts in
SubCondition ==
    [m \in BuilderMethods |->
        CASE m \in {"AfterSeconds", "AfterMinutes", "AfterHours", "AfterDays",
                    "AfterDuration"} -> "duration"
          [] m \in {"AfterSecondsIdle", "AfterMinutesIdle", "AfterHoursIdle",
                    "AfterDaysIdle", "AfterDurationIdle"} -> "idle"
          [] m = "OnDate" -> "date"
          [] m = "OnCondition" -> "condition"]
Multiple ==
    [m \in BuilderMethods |->
        CASE m \in {"AfterMinutes", "AfterMinutesIdle"} -> 60
          [] m \in {"AfterHours", "AfterHoursIdle"} -> 60 * 60
          [] m \in {"AfterDays", "AfterDaysIdle"} -> 24 * 60 * 60
          [] OTHER -> 1]

\* thread t calls a builder method in this step
Builds(t) == At(t, "done") /\ th'[t] # th[t] /\ th'[t].kind \in BuilderMethods

\* C39: a call of a builder method sets the one sub-condition the method is
\* for and leaves the other three as they were, so that the calls of a chain
\* add up; AfterSeconds, AfterMinutes, AfterHours and AfterDays leave what
\* AfterDuration leaves when given as many seconds, and the Idle methods what
\* AfterDurationIdle leaves
C39_OneSubCondition ==
    [][\A t \in Threads :
         Builds(t) =>
            LET m == th'[t].kind
                n == th'[t].val
                before == th[t].ret.data
                built == th'[t].ret.data
            IN  /\ \A c \in {"duration", "idle", "date", "condition"} \ {SubCondition[m]} :
                      built[c] = before[c]
                /\ SubCondition[m] = "duration" =>
                      built = AfterDuration(before, n * Multiple[m])
                /\ SubCondition[m] = "idle" =>
                      built = AfterDurationIdle(before, n * Multiple[m])
                /\ SubCondition[m] = "date" => built.date = n
                /\ SubCondition[m] = "condition" => built.condition = (n > 0)]_vars

\* Expires().AfterHoursIdle(2).AfterHours(1).OnDate(d).OnCondition(f) has
\* been built: all four sub-conditions are set (TestComplexExpires)
C39_Witness ==
    \E t \in Threads :
        /\ At(t, "done") /\ th[t].kind = "OnCondition"
        /\ th[t].ret.data.idle = 2 * 60 * 60
        /\ th[t].ret.data.duration = 60 * 60
        /\ th[t].ret.data.date > 0
        /\ th[t].ret.data.condition

(***************************************************************************)
(* The engine's locks.  Each step of a call above is one critical section  *)
(* of the code: the lock is taken, the step is done, the lock is given     *)
(* back.  Here the three are steps of their own.  A lock that is held is a *)
(* number in locked, above the numbers of the keys' mutexes, that tells    *)
(* who holds it and for which section.                                     *)
(***************************************************************************)
\* the sections of a caller and of the flush goroutine that run under a lock
\* (the flush goroutine deletes under two locks, taken one after the other)
Sections ==
    <<"check1", "check2", "sxGet", "has",
      "fastSet", "setCache", "rmCache", "sxSet",
      "fastIndex", "setIndex", "rmIndex", "sxIndex",
      "sfm1", "sfm2", "getMutex", "delMutex",
      "wait", "delete", "deleteIndex", "stop">>
SectionNames == {Sections[n] : n \in DOMAIN Sections}
SweepSections == {"wait", "delete", "deleteIndex", "stop"}

\* the lock a section runs under
DeadboltOf(s) ==
    CASE s \in {"check1", "check2", "sxGet", "has", "fastSet", "setCache", "rmCache",
                "sxSet", "delete"} -> "cacheDeadbolt"
      [] s \in {"fastIndex", "setIndex", "rmIndex", "sxIndex", "wait", "deleteIndex"}
            -> "expirationDeadbolt"
      [] s \in {"sfm1", "sfm2", "stop"} -> "tickerRunningDeadbolt"
      [] s \in {"getMutex", "delMutex"} -> "keyDeadbolt"

\* the sections that take their lock with RLock (hoard.go 148, 104)
ReadSections == {"check1", "check2", "sxGet", "has", "wait"}

\* who can hold a lock: a caller, or the flush goroutine i of engine e
SweeperId(e, i) == 2 * NumThreads + (IF e = "own" THEN 0 ELSE MaxCalls) + i

\* the number of section s in Sections
SectionNo(s) == CHOOSE n \in DOMAIN Sections : Sections[n] = s

Token(h, s) == 2 * NumThreads + 1 + h * Len(Sections) + SectionNo(s) - 1

\* the locks that are held, and the holder and the section of each
Tokens == {n \in locked : n > 2 * NumThreads + 1}
HolderOf(n) == (n - (2 * NumThreads + 1)) \div Len(Sections)
SectionOf(n) == Sections[((n - (2 * NumThreads + 1)) % Len(Sections)) + 1]

\* the sections holder h holds a lock for
Mine(h) == {SectionOf(n) : n \in {m \in Tokens : HolderOf(m) = h}}

\* the engine whose lock holder h holds, or asks for, for section s
EngineOf(h, s) ==
    IF h \in Callers
    THEN IF s \in {"rmCache", "rmIndex"} THEN th[h].rmE ELSE th[h].e
    ELSE IF h <= 2 * NumThreads + MaxCalls THEN "own" ELSE "shared"

\* the sections lock d of engine e is held for
HeldFor(d, e) ==
    {SectionOf(n) : n \in {m \in Tokens :
                              /\ DeadboltOf(SectionOf(m)) = d
                              /\ EngineOf(HolderOf(m), SectionOf(m)) = e}}

\* Lock() waits until nobody holds the lock, RLock() until no writer does
Available(h, s) ==
    \A held \in HeldFor(DeadboltOf(s), EngineOf(h, s)) :
        s \in ReadSections /\ held \in ReadSections

\* a caller takes the lock of the section it is at
AcquireDeadbolt(t) ==
    /\ th[t].pc \in SectionNames \ SweepSections
    /\ Mine(t) = {}
    /\ Available(t, th[t].pc)
    /\ locked' = locked \cup {Token(t, th[t].pc)}
    /\ UNCHANGED <<now, condition, cache, expirationCache, absolute, tickerRunning,
                   ticker, tickerOn, sweeper, keyDeadbolts, th, defaultExpiration,
                   calls, invoked, cfg>>

\* (faulty variant) a lock is never given back
ReleaseDeadboltForgotten(t) ==
    /\ \E s \in Mine(t) : th[t].pc # s
    /\ UNCHANGED vars

\* a caller gives back the lock of the section it has left
ReleaseDeadbolt(t) ==
    /\ \E s \in Mine(t) :
         /\ th[t].pc # s
         /\ locked' = locked \ {Token(t, s)}
    /\ UNCHANGED <<now, condition, cache, expirationCache, absolute, tickerRunning,
                   ticker, tickerOn, sweeper, keyDeadbolts, th, defaultExpiration,
                   calls, invoked, cfg>>

\* a caller may take its next step: inside a section it holds the section's
\* lock, outside it holds none
Inside(t) ==
    IF th[t].pc \in SectionNames THEN Token(t, th[t].pc) \in locked ELSE Mine(t) = {}

\* hoard.go 106-112: the keys the scan of the flush goroutine collects
Overdue(e) ==
    {k \in DOMAIN expirationCache[e] :
        /\ expirationCache[e][k].expiration # ExpiresDefault
        /\ isExpiredAbsolute(expirationCache[e][k].expiration,
                             absolute[expirationCache[e][k].expiration],
                             now, condition)}

\* where the flush goroutine i of engine e is ("gone" once it is dropped)
SweepAt(e, i) == IF i \in DOMAIN sweeper[e] THEN sweeper[e][i].pc ELSE "gone"

\* hoard.go 104, 120-121 and setTickerRunning: the flush goroutine takes the
\* lock it needs next: the read lock of the index for the scan, the cache
\* lock and then the index lock for the deletion
SweepAcquire(e, i) ==
    /\ i \in DOMAIN sweeper[e]
    /\ \E s \in SweepSections :
         /\ CASE s = "wait" ->
                   /\ SweepAt(e, i) = "wait" /\ i \in tickerOn[e]
                   /\ DOMAIN expirationCache[e] # {}
                   /\ Mine(SweeperId(e, i)) = {}
              [] s = "delete" ->
                   SweepAt(e, i) = "delete" /\ Mine(SweeperId(e, i)) = {}
              [] s = "deleteIndex" ->
                   SweepAt(e, i) = "delete" /\ Mine(SweeperId(e, i)) = {"delete"}
              [] s = "stop" ->
                   SweepAt(e, i) = "stop" /\ Mine(SweeperId(e, i)) = {}
         /\ Available(SweeperId(e, i), s)
         /\ locked' = locked \cup {Token(SweeperId(e, i), s)}
    /\ UNCHANGED <<now, condition, cache, expirationCache, absolute, tickerRunning,
                   ticker, tickerOn, sweeper, keyDeadbolts, th, defaultExpiration,
                   calls, invoked, cfg>>

\* hoard.go 115, 126-127: the flush goroutine gives back a lock: the read
\* lock when the scan is over, the cache lock and then the index lock when
\* the deletion is done
SweepRelease(e, i) ==
    /\ \E s \in Mine(SweeperId(e, i)) :
         /\ CASE s = "wait" ->
                   \/ SweepAt(e, i) # "wait"
                   \/ Overdue(e) = {} /\ DOMAIN expirationCache[e] # {}
              [] s = "delete" -> SweepAt(e, i) # "delete"
              [] s = "deleteIndex" ->
                   SweepAt(e, i) # "delete" /\ "delete" \notin Mine(SweeperId(e, i))
              [] s = "stop" -> SweepAt(e, i) # "stop"
         /\ locked' = locked \ {Token(SweeperId(e, i), s)}
    /\ UNCHANGED <<now, condition, cache, expirationCache, absolute, tickerRunning,
                   ticker, tickerOn, sweeper, keyDeadbolts, th, defaultExpiration,
                   calls, invoked, cfg>>

\* the flush goroutine may take its next step
SweepInside(e, i) ==
    LET mine == Mine(SweeperId(e, i))
    IN  CASE SweepAt(e, i) = "wait" ->
               \/ mine = {"wait"}
               \/ mine = {} /\ DOMAIN expirationCache[e] = {}
          [] SweepAt(e, i) = "delete" -> mine = {"delete", "deleteIndex"}
          [] SweepAt(e, i) = "stop" -> mine = {"stop"}
          [] OTHER -> FALSE

(***************************************************************************)
(* Two threads call Set, Has, Remove, SetExpires and Get without a         *)
(* dataGetter on the one key of "own", with a duration, while the flush    *)
(* goroutine and the clock run; every lock is taken and given back in a    *)
(* step of its own.                                                        *)
(***************************************************************************)
DeadboltScenario ==
    [Scenario({1, 2}, {"Set", "Has", "Remove", "SetExpires", "Get"}, {"own"},
              {"pdur"}, {FALSE}, ExpiresNever, 0, FALSE)
        EXCEPT !.budget = MaxCalls - 1]
DeadboltInit == InitWith(DeadboltScenario)
CallerStep(t) ==
    \/ Call(t) \/ Return(t)
    \/ Check1(t) \/ FastSet(t) \/ FastIndex(t) \/ GetMutex(t) \/ Lock(t)
    \/ Check2(t) \/ Miss(t) \/ Unlock(t) \/ DelMutex(t)
    \/ SetStep(t) \/ RemoveStep(t) \/ SetExpiresStep(t) \/ Has(t)
DeadboltNext ==
    \/ \E t \in Threads :
         \/ Inside(t) /\ CallerStep(t)
         \/ AcquireDeadbolt(t)
         \/ ReleaseDeadbolt(t)
    \/ \E e \in Engines : \E i \in Tickers :
         \/ SweepInside(e, i) /\ SweepStep(e, i)
         \/ SweepAcquire(e, i)
         \/ SweepRelease(e, i)
    \/ AdvanceTime
\* every caller and every flush goroutine goes on running, and a Lock() or
\* RLock() that can be granted again and again is granted (sync.Mutex and
\* sync.RWMutex do not starve a waiter)
DeadboltFairness ==
    /\ \A t \in DeadboltScenario.threads :
         /\ WF_vars(\/ Inside(t) /\ (Return(t) \/ GetStep(t) \/ SetStep(t) \/ RemoveStep(t)
                                       \/ SetExpiresStep(t) \/ Has(t))
                    \/ ReleaseDeadbolt(t))
         /\ SF_vars(AcquireDeadbolt(t))
    /\ \A e \in DeadboltScenario.engines : \A i \in Tickers :
         /\ WF_vars((SweepInside(e, i) /\ SweepStep(e, i)) \/ SweepRelease(e, i))
         /\ SF_vars(SweepAcquire(e, i))
SpecDeadbolt == DeadboltInit /\ [][DeadboltNext]_vars /\ DeadboltFairness

\* C40: the locks of the engine never deadlock: with Set, Has, Remove,
\* SetExpires, Get without a dataGetter and the ticks of the flush goroutine
\* (which holds the cache lock while it takes the index lock) interleaved in
\* every way, no call stays in progress for ever and no flush goroutine holds
\* a lock for ever
C40_NoDeadlock ==
    /\ \A t \in DeadboltScenario.threads : []<>(~InCall(t))
    /\ \A e \in DeadboltScenario.engines : \A i \in Tickers :
         []<>(Mine(SweeperId(e, i)) = {})

\* the flush goroutine holds the cache lock and waits for the index lock,
\* which a caller holds
C40_Witness ==
    \E e \in Engines, i \in Tickers, t \in Threads :
        /\ Mine(SweeperId(e, i)) = {"delete"}
        /\ Mine(t) \cap {"fastIndex", "setIndex", "rmIndex", "sxIndex"} # {}
        /\ \E s \in Mine(t) : EngineOf(t, s) = e
====
